---- MODULE Spec2Model ----
(***************************************************************************)
(* The signal computation engine of pages/api/signal.ts: the request       *)
(* handler with its response cache and sentiment cache, the ingestion and  *)
(* dedup pass, the lexicon scorer, weighting and aggregation.              *)
(*                                                                         *)
(* The runtime is a single-threaded event loop.  `running` names the       *)
(* handler invocation that holds the thread; it runs until it suspends at  *)
(* an await of real I/O (feed fetch, secondary fetch, model load,          *)
(* inference) or returns.  An await of an already settled promise resumes  *)
(* from the microtask queue, before any I/O callback can start or resume   *)
(* another invocation, so it does not release the thread.                  *)
(*                                                                         *)
(* Numbers: times are milliseconds and every modelled instant is a whole    *)
(* minute; sentiment scores and source weights are kept in twentieths      *)
(* (Unit), model probabilities in hundredths; the running weights of one   *)
(* computation are numerators over the denominator WeightDen(W).           *)
(***************************************************************************)
EXTENDS Integers, Sequences, FiniteSets, TLC

\* ---------------------------------------------------------------- bounds
NumFeeds == 2
MaxItems == 2
MaxReq == 2
MaxStarts == 3
MaxTicks == 3
CacheFeeds == 1
CacheFeedItems == 1
MaxPosts == 2

\* ------------------------------------------------------- program constants
SENTIMENT_CACHE_TTL_MS == 1000 * 60 * 60 * 6
DEFAULT_RESPONSE_TTL_MS == 45000
TIMEZONE_OFFSET_MINUTES == 0
MinuteMs == 1000 * 60
DayMs == 24 * 60 * MinuteMs

Req == 1..MaxReq

\* 1.0 in the fixed-point representation of scores and source weights.
Unit == 4 * 5

\* Modelled instants: T0 is 23:59 of day 0 and Midnight 00:00 of day 1
\* (offset 0); time advances by a minute or by a little less than the
\* sentiment TTL.
T0 == DayMs - MinuteMs
Midnight == DayMs
TickDeltas == {MinuteMs, SENTIMENT_CACHE_TTL_MS - 2 * MinuteMs}

\* SIGNAL_CACHE_TTL_MS settings the model runs under: disabled, the default,
\* and two minutes.
ResponseTtlSettings == {0, DEFAULT_RESPONSE_TTL_MS, 2 * MinuteMs}

VARIABLES
  clock,            \* Date.now()
  ticks,            \* number of clock advances so far (bounds the run)
  starts,           \* number of handler invocations so far (bounds the run)
  RESPONSE_CACHE_TTL_MS,
  CRYPTOPANIC_TOKEN,
  ENABLE_TRANSFORMERS,
  responseCache,    \* <<>> (null) or <<[timestamp, payload]>>
  sentimentCache,   \* link -> [score, expiresAt], on the links present
  transformersModulePromise,
  pipelinePromise,  \* track -> state of finbertPipelinePromise / xlmRobertaPipelinePromise
  factoryCalls,     \* track -> the pipelineFactory calls its createModelPipeline has made
  req,              \* handler invocation -> its locals and position
  running,          \* the invocation holding the thread, or 0
  hist,             \* history of cache mutations and loader starts
  calc              \* a pure function under evaluation: its name, arguments, result

vars == <<clock, ticks, starts, RESPONSE_CACHE_TTL_MS, CRYPTOPANIC_TOKEN,
          ENABLE_TRANSFORMERS, responseCache, sentimentCache,
          transformersModulePromise, pipelinePromise, factoryCalls, req, running,
          hist, calc>>

config == <<RESPONSE_CACHE_TTL_MS, CRYPTOPANIC_TOKEN, ENABLE_TRANSFORMERS>>
loaders == <<transformersModulePromise, pipelinePromise, factoryCalls>>

\* ----------------------------------------------------------------- helpers
Max(a, b) == IF a >= b THEN a ELSE b
Min(a, b) == IF a <= b THEN a ELSE b
Abs(x) == IF x < 0 THEN 0 - x ELSE x
Sign(x) == IF x > 0 THEN 1 ELSE IF x < 0 THEN 0 - 1 ELSE 0

clamp(min, max, value) == Min(max, Max(min, value))

\* Math.round(n / d) for n >= 0, d > 0: halves round up.
RoundDiv(n, d) == (2 * n + d) \div (2 * d)

\* IEEE 754 double arithmetic on the values line 620 computes with.  A
\* positive double is [digits, e]: the hexadecimal digits of an integer of at
\* most MantissaBits significant bits, lowest first, and the binary exponent
\* of its unit; a result is rounded to nearest, ties to even.
MantissaBits == 53
FractionDigits == (MantissaBits - 1) \div 4

RECURSIVE DigitsOf(_)
DigitsOf(n) == IF n = 0 THEN <<>> ELSE <<n % 16>> \o DigitsOf(n \div 16)

RECURSIVE IntOf(_)
IntOf(digits) ==
  IF digits = <<>> THEN 0 ELSE Head(digits) + 16 * IntOf(Tail(digits))

\* digits * k + carry, digit by digit.
RECURSIVE TimesSmall(_, _, _)
TimesSmall(digits, k, carry) ==
  IF digits = <<>> THEN DigitsOf(carry)
  ELSE LET t == Head(digits) * k + carry
       IN <<t % 16>> \o TimesSmall(Tail(digits), k, t \div 16)

BitLength(digits) ==
  LET top == digits[Len(digits)]
  IN 4 * (Len(digits) - 1)
       + (IF top >= 8 THEN 4 ELSE IF top >= 4 THEN 3 ELSE IF top >= 2 THEN 2 ELSE 1)

\* An integer of at most MantissaBits + 7 bits rounded to MantissaBits bits.
RoundToMantissa(digits) ==
  LET drop == BitLength(digits) - MantissaBits
      low == digits[1] + 16 * digits[2]
      dropped == low % 2^drop
      odd == (low \div 2^drop) % 2 = 1
      up == 2 * dropped > 2^drop \/ (2 * dropped = 2^drop /\ odd)
      cleared == <<(low - dropped) % 16, (low - dropped) \div 16>>
                   \o SubSeq(digits, 3, Len(digits))
  IN IF drop <= 0 THEN digits
     ELSE TimesSmall(cleared, 1, IF up THEN 2^drop ELSE 0)

\* The doublings of n it takes to reach d.
NormShift(n, d) ==
  CHOOSE s \in 0..30 : n * 2^s >= d /\ \A u \in 0..(s - 1) : n * 2^u < d

\* count further hexadecimal digits of r / d, r < d < 2^27, put below acc.
RECURSIVE LongDivision(_, _, _, _)
LongDivision(r, d, count, acc) ==
  IF count = 0 THEN [digits |-> acc, rem |-> r]
  ELSE LongDivision((16 * r) % d, d, count - 1, <<(16 * r) \div d>> \o acc)

\* The double n / d for integers 0 < n <= d < 2^27: the quotient scaled into
\* [1, 2), its FractionDigits digits after the point and one digit more,
\* which with the remainder decides the rounding.
FloatQuotient(n, d) ==
  LET s == NormShift(n, d)
      div == LongDivision(n * 2^s - d, d, FractionDigits + 1, <<>>)
      guard == Head(div.digits)
      mantissa == Tail(div.digits) \o <<1>>
      up == guard > 8 \/ (guard = 8 /\ (div.rem # 0 \/ mantissa[1] % 2 = 1))
  IN [digits |-> IF up THEN TimesSmall(mantissa, 1, 1) ELSE mantissa,
      e |-> 0 - (MantissaBits - 1 + s)]

\* The double x * k for an integer 0 < k < 128.
FloatTimes(x, k) ==
  [digits |-> RoundToMantissa(TimesSmall(x.digits, k, 0)), e |-> x.e]

\* Math.round of a positive double below 2^27 with a negative exponent: the
\* integer part, one more when the bit of weight 1/2 is set.
MathRound(x) ==
  LET point == 0 - x.e
      whole == IF point \div 4 >= Len(x.digits) THEN 0
               ELSE IntOf(SubSeq(x.digits, point \div 4 + 1, Len(x.digits)))
                      \div 2^(point % 4)
      at == (point - 1) \div 4 + 1
      half == IF at <= Len(x.digits)
              THEN (x.digits[at] \div 2^((point - 1) % 4)) % 2 ELSE 0
  IN whole + half

\* Math.round((n / d) * 100) of line 620-621 for integers 0 <= n <= d, d > 0:
\* the quotient is rounded to a double before it is multiplied.
RoundPct(n, d) ==
  IF n = 0 THEN 0 ELSE MathRound(FloatTimes(FloatQuotient(n, d), 100))

\* Number(x.toFixed(4)) * 10^4 for x = n / d, d > 0: nearest, halves away from 0.
RoundSigned(n, d) == Sign(n) * RoundDiv(Abs(n), d)

\* -------------------------------------------------------------------- links
\* A raw link is a parsed URL (host, query keys in order, fragment), a string
\* that `new URL` rejects, or the empty string.
UtmKeys == {"utm_source", "UTM_Medium"}
IsUtm(k) == k \in UtmKeys

Url(host, params, hash) == [kind |-> "url", host |-> host, params |-> params, hash |-> hash]
EmptyLink == [kind |-> "empty", host |-> "", params |-> <<>>, hash |-> ""]
BadLink == [kind |-> "invalid", host |-> "not a url", params |-> <<>>, hash |-> ""]

NotUtm(k) == ~IsUtm(k)

normalizeLink(url) ==
  IF url.kind = "url"
  THEN [url EXCEPT !.params = SelectSeq(@, NotUtm), !.hash = ""]
  ELSE url

\* --------------------------------------------------------------- tokenizer
\* Raw words of the modelled vocabulary and the tokens tokenize() yields for
\* each: lowercased, every run of characters outside [a-z0-9\s-] a separator.
TokensOf(word) ==
  CASE word = "Rally" -> <<"rally">>
    [] word = "surge!" -> <<"surge">>
    [] word = "Hack," -> <<"hack">>
    [] word = "sell-off" -> <<"sell-off">>
    [] word = "ETF/ban" -> <<"etf", "ban">>
    [] word = "bitcoin" -> <<"bitcoin">>
    [] word = "hangul" -> <<>>
    [] OTHER -> <<word>>

RECURSIVE tokenize(_)
tokenize(text) ==
  IF text = <<>> THEN <<>> ELSE TokensOf(Head(text)) \o tokenize(Tail(text))

POSITIVE_WORDS == {"gain", "rally", "bull", "surge", "etf", "approve", "listing"}
NEGATIVE_WORDS == {"drop", "crash", "sell-off", "ban", "hack", "exploit", "stolen"}

IsPositiveWord(t) == t \in POSITIVE_WORDS
IsNegativeWord(t) == t \in NEGATIVE_WORDS

labelFromScore(score) ==
  IF score > 0 THEN "positive" ELSE IF score < 0 THEN "negative" ELSE "neutral"

scoreSentimentLexicon(title, snippet) ==
  LET tokens == tokenize(title \o snippet)
      pos == Len(SelectSeq(tokens, IsPositiveWord))
      neg == Len(SelectSeq(tokens, IsNegativeWord))
      rawScore == pos - neg
  IN IF rawScore > 0 THEN [label |-> "positive", score |-> Unit * rawScore]
     ELSE IF rawScore < 0 THEN [label |-> "negative", score |-> Unit * rawScore]
     ELSE [label |-> "neutral", score |-> 0]

hasHangul(text) == \E i \in 1..Len(text) : text[i] = "hangul"

\* ------------------------------------------------------------ model scoring
\* mapModelLabel over the labels the modelled classifiers emit.
mapModelLabel(label) ==
  CASE label \in {"Positive", "LABEL_2"} -> "positive"
    [] label \in {"NEGATIVE", "LABEL_0"} -> "negative"
    [] OTHER -> "neutral"

\* What one classifier call delivers: a rejection, or a list of
\* [label, score] with score a probability in hundredths.
InferenceFailed == [status |-> "rejected", outputs |-> <<>>]
Classified(outputs) == [status |-> "fulfilled", outputs |-> outputs]

MaxOf(S) == CHOOSE x \in S : \A y \in S : y <= x

ProbOf(outputs, sentiment) ==
  MaxOf({0} \cup {outputs[i].score : i \in {j \in 1..Len(outputs) :
                                             mapModelLabel(outputs[j].label) = sentiment}})

\* scoreSentimentModel giving the magnitude without its sign.
scoreSentimentModelUnsigned(outcome) ==
  IF outcome.status # "fulfilled" \/ outcome.outputs = <<>> THEN <<>>
  ELSE LET positive == ProbOf(outcome.outputs, "positive")
           negative == ProbOf(outcome.outputs, "negative")
           diff == positive - negative
           magnitude == Max(Unit \div 2, (Abs(diff) * 5 * Unit) \div 100)
       IN IF Abs(diff) < 5 THEN <<[label |-> "neutral", score |-> 0]>>
          ELSE <<[label |-> labelFromScore(diff), score |-> magnitude]>>

\* scoreSentimentModel from the classifier's outcome on: <<>> for null.
scoreSentimentModel(outcome) ==
  IF outcome.status # "fulfilled" \/ outcome.outputs = <<>> THEN <<>>
  ELSE LET positive == ProbOf(outcome.outputs, "positive")
           negative == ProbOf(outcome.outputs, "negative")
           neutral == ProbOf(outcome.outputs, "neutral")
           diff == positive - negative
           strongest == Max(positive, Max(negative, neutral))
           magnitude == Max(Unit \div 2, (Abs(diff) * 5 * Unit) \div 100)
       IN IF /\ (strongest < 40 \/ Abs(diff) < 5)
             /\ \/ (neutral >= 40 /\ neutral >= positive /\ neutral >= negative)
                \/ Abs(diff) < 5
          THEN <<[label |-> "neutral", score |-> 0]>>
          ELSE IF diff > 0 THEN <<[label |-> "positive", score |-> magnitude]>>
          ELSE IF diff < 0 THEN <<[label |-> "negative", score |-> 0 - magnitude]>>
          ELSE <<[label |-> "neutral", score |-> 0]>>

\* The combiner answering neutral when there is no model result.
combineSentimentsNoFallback(modelScore, lexiconScore) ==
  IF modelScore = <<>> THEN [label |-> "neutral", score |-> 0] ELSE lexiconScore

\* The combiner taking the model result whenever there is one.
combineSentimentsModelFirst(modelScore, lexiconScore) ==
  IF modelScore = <<>> THEN lexiconScore ELSE modelScore[1]

\* Lines 511-541.
combineSentiments(modelScore, lexiconScore) ==
  IF modelScore = <<>> THEN lexiconScore
  ELSE LET m == modelScore[1]
           combinedMagnitude == Max(Abs(m.score), Abs(lexiconScore.score))
           combinedScore ==
             Sign(IF m.score # 0 THEN m.score ELSE lexiconScore.score) * combinedMagnitude
       IN IF m.label = "neutral" /\ lexiconScore.score # 0 THEN lexiconScore
          ELSE IF lexiconScore.score = 0 THEN m
          ELSE IF Sign(m.score) = Sign(lexiconScore.score)
               THEN [label |-> labelFromScore(combinedScore), score |-> combinedScore]
          ELSE IF Abs(m.score) >= Abs(lexiconScore.score) THEN m
          ELSE lexiconScore

\* The promise slots of the loaders: "null" (never asked), "pending", and
\* settled with the module or pipeline ("module", "ready") or with null
\* ("unavailable").
getTransformersModule(modulePromise) ==
  IF modulePromise = "null" THEN "pending" ELSE modulePromise

\* The loader starting again on a track that failed to load.
getTextClassificationPipelineRetry(promises, model) ==
  IF promises[model] \in {"null", "unavailable"}
  THEN [promises EXCEPT ![model] = "pending"] ELSE promises

\* Lines 438-458: createModelPipeline is called only while the slot is null.
getTextClassificationPipeline(promises, model) ==
  IF promises[model] = "null" THEN [promises EXCEPT ![model] = "pending"] ELSE promises

\* ------------------------------------------------------------ time and decay
InvalidDate == 0 - 1

\* toDate: null (here InvalidDate) for an empty or unparsable date string.
toDate(value) == IF value < 0 THEN InvalidDate ELSE value

\* Start of day left in the shifted frame.
computeTimezoneStartOfDayUnshifted(date, offsetMinutes) ==
  LET shifted == date + offsetMinutes * MinuteMs
  IN shifted - (shifted % DayMs)

\* Lines 366-379; Date.UTC of the shifted date's year, month and day is the
\* shifted instant less its time of day.
computeTimezoneStartOfDay(date, offsetMinutes) ==
  LET shifted == date + offsetMinutes * MinuteMs
      tzMidnightUTC == shifted - (shifted % DayMs)
  IN tzMidnightUTC - offsetMinutes * MinuteMs

\* Lines 660-667 for one offset.
WindowMinutesFor(now, offsetMinutes) ==
  Max(1, RoundDiv(now - computeTimezoneStartOfDay(now, offsetMinutes), MinuteMs))

WindowMinutesAt(now) == WindowMinutesFor(now, TIMEZONE_OFFSET_MINUTES)

\* minutesAgo >= 0 && minutesAgo <= windowMinutes, minutesAgo in milliseconds.
withinWindow(pubDate, now, windowMinutes) ==
  /\ toDate(pubDate) # InvalidDate
  /\ now - toDate(pubDate) >= 0
  /\ now - toDate(pubDate) <= windowMinutes * MinuteMs

\* toMinutesAgo; the quotient is exact, every modelled instant being a whole
\* minute.
toMinutesAgo(date, now) == (now - date) \div MinuteMs

\* linearTimeDecay as the fraction linearTimeDecayNum / DecayDen.
DecayDen(windowMinutes) == 10 * Max(windowMinutes, 1)
linearTimeDecayNum(minutesAgo, windowMinutes) ==
  LET safeWindow == Max(windowMinutes, 1)
      clamped == clamp(0, safeWindow, minutesAgo)
      decay == 10 * safeWindow - 3 * clamped
  IN clamp(7 * safeWindow, 10 * safeWindow, decay)

\* The decay weight without the test of the window.
decayWeightNumUnwindowed(date, now, windowMinutes) ==
  linearTimeDecayNum(toMinutesAgo(date, now), windowMinutes)

\* Lines 288-294.
decayWeightNum(date, now, windowMinutes) ==
  IF now - date < 0 \/ now - date > windowMinutes * MinuteMs
  THEN 0
  ELSE linearTimeDecayNum(toMinutesAgo(date, now), windowMinutes)

\* ------------------------------------------------------------------ sources
\* SOURCE_WEIGHTS in twentieths, 1.0 for a name the table does not list.
weightForSource(source) ==
  CASE source = "Reuters" -> 26
    [] source = "Bloomberg" -> 25
    [] source = "CoinDesk" -> 23
    [] source = "Cointelegraph" -> 22
    [] OTHER -> Unit

\* creator, then the feed's source field, then the link's hostname without a
\* leading "www.", then "Unknown".
StripWww(host) == IF host = "www.coindesk.com" THEN "coindesk.com" ELSE host
resolveSource(item, link) ==
  IF item.creator # "" THEN item.creator
  ELSE IF item.source # "" THEN item.source
  ELSE IF link.kind = "url" /\ StripWww(link.host) # "" THEN StripWww(link.host)
  ELSE "Unknown"

\* -------------------------------------------------------------- raw inputs
LinkA == Url("www.coindesk.com", <<"id">>, "")
LinkAutm == Url("www.coindesk.com", <<"utm_source", "id", "UTM_Medium">>, "top")
LinkB == Url("example.org", <<>>, "")
LinkC == Url("cointelegraph.com", <<"id">>, "")

RssItem(title, link, pubDate, creator) ==
  [title |-> title, link |-> link, pubDate |-> pubDate, contentSnippet |-> <<>>,
   creator |-> creator, source |-> ""]

\* What a feed can deliver: yesterday's and today's articles, two of them
\* under links that normalize identically, one without a usable date, one
\* without a link.
FeedItems ==
  { RssItem(<<"bitcoin", "Rally">>, LinkAutm, T0 - MinuteMs, ""),
    RssItem(<<"Hack,">>, LinkA, T0 - MinuteMs, "Reuters"),
    RssItem(<<"surge!">>, LinkB, T0 + MinuteMs, ""),
    RssItem(<<"ETF/ban">>, LinkB, InvalidDate, ""),
    RssItem(<<"sell-off">>, EmptyLink, T0 + MinuteMs, "") }

\* The articles of the caching runs, all published at midnight: two versions
\* of one article that the lexicon scores differently, and another article.
CacheItems ==
  { RssItem(<<"surge!">>, LinkB, Midnight, ""),
    RssItem(<<"sell-off">>, LinkB, Midnight, ""),
    RssItem(<<"bitcoin">>, LinkC, Midnight, "Cointelegraph") }

SeqsUpTo(S, n) == UNION { [1..k -> S] : k \in 0..n }

\* The outcome of one parser.parseURL call: rejected, a feed with items, or
\* a promise fulfilled with undefined, on which `feed.items` (line 732)
\* throws a TypeError.
Rejected == [status |-> "rejected", value |-> "reason", items |-> <<>>]
Fulfilled(items) == [status |-> "fulfilled", value |-> "feed", items |-> items]
Undefined == [status |-> "fulfilled", value |-> "undefined", items |-> <<>>]
Throws(result) == result.status = "fulfilled" /\ result.value = "undefined"
FeedOutcomes(S, n) == {Rejected} \cup { Fulfilled(s) : s \in SeqsUpTo(S, n) }
RssResultSets(feeds, S, n) == [1..feeds -> FeedOutcomes(S, n)]

\* --------------------------------------------------------- sentiment cache
Cached(c, key) == key \in DOMAIN c

\* A read that renews the expiry of the entry it returns.
CacheAfterGetTouching(c, key, now) ==
  IF Cached(c, key) /\ c[key].expiresAt <= now
  THEN [k \in DOMAIN c \ {key} |-> c[k]]
  ELSE IF Cached(c, key)
       THEN [c EXCEPT ![key].expiresAt = now + SENTIMENT_CACHE_TTL_MS]
       ELSE c

\* getCachedSentiment: the cache after the read (an expired entry is deleted).
CacheAfterGet(c, key, now) ==
  IF Cached(c, key) /\ c[key].expiresAt <= now
  THEN [k \in DOMAIN c \ {key} |-> c[k]]
  ELSE c

\* getCachedSentiment: <<>> for null, else <<score>>.
getCachedSentiment(c, key, now) ==
  IF Cached(c, key) /\ c[key].expiresAt > now THEN <<c[key].score>> ELSE <<>>

setCachedSentiment(c, key, score, now) ==
  [k \in DOMAIN c \cup {key} |->
     IF k = key THEN [score |-> score, expiresAt |-> now + SENTIMENT_CACHE_TTL_MS]
     ELSE c[k]]

\* The sweep that keeps an entry expiring at this very instant.
cleanupSentimentCacheKeepNow(c, now) ==
  [k \in {x \in DOMAIN c : c[x].expiresAt >= now} |-> c[k]]

\* Lines 358-364.
cleanupSentimentCache(c, now) ==
  [k \in {x \in DOMAIN c : c[x].expiresAt > now} |-> c[k]]

\* ----------------------------------------------------------------- handler
WeightDen(windowMinutes) == Unit * Unit * DecayDen(windowMinutes)

\* The locals of one handler invocation.  fetched, swept, scored and reused
\* record what the invocation did: what each feed URL delivered, the sweeps
\* it ran, the links it sent to the scorer and the links it took from the
\* sentiment cache; feedCalls, cpCalls and inferCalls count its calls of
\* parser.parseURL per feed URL, of the secondary API and of a classifier;
\* inference tells how its last wait for a model ended, cpError what the
\* catch of lines 828-830 swallowed.
IdleReq ==
  [pc |-> "idle", method |-> "GET", forceRefresh |-> FALSE, nowMs |-> 0,
   windowMinutes |-> 0, rssResults |-> <<>>, fi |-> 0, ii |-> 0,
   posts |-> <<>>, seen |-> {}, items |-> <<>>,
   posW |-> 0, negW |-> 0, neuW |-> 0,
   posCount |-> 0, negCount |-> 0, neuCount |-> 0,
   status |-> 0, headers |-> {}, body |-> <<>>, cacheHit |-> FALSE,
   fetched |-> <<>>, swept |-> 0, scored |-> {}, reused |-> {},
   pending |-> <<>>, feedCalls |-> 0, cpCalls |-> 0, inferCalls |-> 0,
   inference |-> "none", cpError |-> "none"]

InFlight(rq) == rq.pc \notin {"idle", "done"}

\* Invocations are interchangeable: a new one takes the slot that never ran
\* or whose response is the oldest, so the latest responses stay visible.
Age(rq) == IF rq.pc = "idle" THEN 0 - 1 ELSE rq.nowMs

\* accumulate weighting by the bare magnitude of the score.
accumulateUnclamped(rq, sentiment, score, wSource, wDecayNum) ==
  LET weightedContribution == Abs(score) * wSource * wDecayNum
  IN CASE sentiment = "positive" ->
            [rq EXCEPT !.posW = @ + weightedContribution, !.posCount = @ + 1]
       [] sentiment = "negative" ->
            [rq EXCEPT !.negW = @ + weightedContribution, !.negCount = @ + 1]
       [] OTHER ->
            [rq EXCEPT !.neuW = @ + weightedContribution, !.neuCount = @ + 1]

\* accumulate() of lines 712-726: the class's running weight, as a numerator
\* over WeightDen, and its count.
accumulate(rq, sentiment, score, wSource, wDecayNum) ==
  LET magnitudeBoost == clamp(Unit \div 2, 2 * Unit, Abs(score))
      weightedContribution == magnitudeBoost * wSource * wDecayNum
  IN CASE sentiment = "positive" ->
            [rq EXCEPT !.posW = @ + weightedContribution, !.posCount = @ + 1]
       [] sentiment = "negative" ->
            [rq EXCEPT !.negW = @ + weightedContribution, !.negCount = @ + 1]
       [] OTHER ->
            [rq EXCEPT !.neuW = @ + weightedContribution, !.neuCount = @ + 1]

formattedWeight(rq, score, wSource, wDecayNum) ==
  RoundSigned(score * wSource * wDecayNum * 25, DecayDen(rq.windowMinutes))

\* Lines 760-780: weight the accepted item, mark its link seen, accumulate
\* and push it.
AcceptItem(rq, title, link, pubDate, source, sentimentResult) ==
  LET wSource == weightForSource(source)
      wDecayNum == decayWeightNum(pubDate, rq.nowMs, rq.windowMinutes)
      acc == accumulate(rq, sentimentResult.label, sentimentResult.score,
                        wSource, wDecayNum)
  IN [acc EXCEPT
        !.seen = @ \cup {link},
        !.items = Append(@,
           [title |-> IF title = <<>> THEN <<"(untitled)">> ELSE title,
            link |-> link, pubDate |-> pubDate, source |-> source,
            sentiment |-> sentimentResult.label,
            score |-> sentimentResult.score,
            weight |-> formattedWeight(rq, sentimentResult.score, wSource, wDecayNum)])]

\* items.sort by pubDate, descending; Array.prototype.sort is stable.
RECURSIVE InsertByDate(_, _)
InsertByDate(sorted, it) ==
  IF sorted = <<>> THEN <<it>>
  ELSE IF Head(sorted).pubDate >= it.pubDate
       THEN <<Head(sorted)>> \o InsertByDate(Tail(sorted), it)
       ELSE <<it>> \o sorted

RECURSIVE SortItems(_)
SortItems(items) ==
  IF items = <<>> THEN <<>>
  ELSE InsertByDate(SortItems(SubSeq(items, 1, Len(items) - 1)), items[Len(items)])

\* buildResponse recommending the heavier side without the 5% band.
buildResponseNoBand(windowMinutes, timezoneOffsetMinutes, items, posW, negW, neuW, posCount, negCount, neuCount, generatedAt) ==
  LET directionalWeight == posW + negW
      longPct == IF directionalWeight > 0
                 THEN RoundPct(posW, directionalWeight) ELSE 0
      shortPct == IF directionalWeight > 0 THEN 100 - longPct ELSE 0
      recommendation ==
        IF posW > negW THEN "LONG"
        ELSE IF negW > posW THEN "SHORT"
        ELSE "NEUTRAL"
  IN [windowMinutes |-> windowMinutes,
      timezoneOffsetMinutes |-> timezoneOffsetMinutes,
      generatedAt |-> generatedAt,
      counts |-> [positive |-> posCount, negative |-> negCount, neutral |-> neuCount],
      weights |-> [posW |-> posW, negW |-> negW, neuW |-> neuW],
      weightDen |-> WeightDen(windowMinutes),
      longPct |-> longPct, shortPct |-> shortPct,
      recommendation |-> recommendation,
      items |-> items]

\* buildResponse with the 5% band in favour of a recommendation.
buildResponseEager(windowMinutes, timezoneOffsetMinutes, items, posW, negW, neuW, posCount, negCount, neuCount, generatedAt) ==
  LET directionalWeight == posW + negW
      longPct == IF directionalWeight > 0
                 THEN RoundPct(posW, directionalWeight) ELSE 0
      shortPct == IF directionalWeight > 0 THEN 100 - longPct ELSE 0
      recommendation ==
        IF 21 * posW > 20 * negW THEN "LONG"
        ELSE IF 21 * negW > 20 * posW THEN "SHORT"
        ELSE "NEUTRAL"
  IN [windowMinutes |-> windowMinutes,
      timezoneOffsetMinutes |-> timezoneOffsetMinutes,
      generatedAt |-> generatedAt,
      counts |-> [positive |-> posCount, negative |-> negCount, neutral |-> neuCount],
      weights |-> [posW |-> posW, negW |-> negW, neuW |-> neuW],
      weightDen |-> WeightDen(windowMinutes),
      longPct |-> longPct, shortPct |-> shortPct,
      recommendation |-> recommendation,
      items |-> items]

\* Lines 603-646.  posW > negW * 1.05 is compared as 20 * posW > 21 * negW.
buildResponse(windowMinutes, timezoneOffsetMinutes, items, posW, negW, neuW, posCount, negCount, neuCount, generatedAt) ==
  LET directionalWeight == posW + negW
      longPct == IF directionalWeight > 0
                 THEN RoundPct(posW, directionalWeight) ELSE 0
      shortPct == IF directionalWeight > 0 THEN 100 - longPct ELSE 0
      recommendation ==
        IF 20 * posW > 21 * negW THEN "LONG"
        ELSE IF 20 * negW > 21 * posW THEN "SHORT"
        ELSE "NEUTRAL"
  IN [windowMinutes |-> windowMinutes,
      timezoneOffsetMinutes |-> timezoneOffsetMinutes,
      generatedAt |-> generatedAt,
      counts |-> [positive |-> posCount, negative |-> negCount, neutral |-> neuCount],
      weights |-> [posW |-> posW, negW |-> negW, neuW |-> neuW],
      weightDen |-> WeightDen(windowMinutes),
      longPct |-> longPct, shortPct |-> shortPct,
      recommendation |-> recommendation,
      items |-> items]

\* The payload built from the items in the order the loops pushed them.
PayloadUnsorted(rq, generatedAt) ==
  buildResponse(rq.windowMinutes, TIMEZONE_OFFSET_MINUTES, rq.items,
                rq.posW, rq.negW, rq.neuW,
                rq.posCount, rq.negCount, rq.neuCount, generatedAt)

\* The payload the invocation builds once its loops are over (lines 843-859).
PayloadOf(rq, generatedAt) ==
  buildResponse(rq.windowMinutes, TIMEZONE_OFFSET_MINUTES, SortItems(rq.items),
                rq.posW, rq.negW, rq.neuW,
                rq.posCount, rq.negCount, rq.neuCount, generatedAt)

\* ------------------------------------------------------------- mutation log
\* hist.mutated[r]: r has written or deleted a cache entry in this invocation;
\* hist.mutSince[r]: the invocations that mutated a cache after r's first
\* mutation; hist.interleaved[r]: those of them that r mutated after again;
\* hist.overlapped[r]: the invocations in flight at some time during r's;
\* hist.replaced: a cache write replaced a value stored by another invocation.
\* hist.stores: the sentiment-cache writes so far, each as the link and the
\* request time of the computation that wrote it.
\* hist.loads[t]: the calls of createModelPipeline for track t; hist.imports:
\* the imports of the transformers module; hist.fallbacks[t]: the scorings on
\* track t that found no classifier (counted up to 2).
HistInit ==
  [mutated |-> [r \in Req |-> FALSE],
   mutSince |-> [r \in Req |-> {}],
   interleaved |-> [r \in Req |-> {}],
   overlapped |-> [r \in Req |-> {}],
   replaced |-> FALSE,
   stores |-> {},
   fallbacks |-> [t \in {"finbert", "xlmr"} |-> 0],
   loads |-> [t \in {"finbert", "xlmr"} |-> 0],
   imports |-> 0]

Mutated(h, r) ==
  [h EXCEPT
     !.interleaved[r] = @ \cup h.mutSince[r],
     !.mutSince = [q \in Req |-> IF q # r /\ h.mutated[q] THEN @[q] \cup {r} ELSE @[q]],
     !.mutated[r] = TRUE]

MutatedIf(h, r, changed) == IF changed THEN Mutated(h, r) ELSE h

HistStart(h, r) ==
  LET others == {q \in Req \ {r} : InFlight(req[q])}
  IN [h EXCEPT
        !.mutated[r] = FALSE,
        !.mutSince[r] = {},
        !.interleaved[r] = {},
        !.overlapped = [q \in Req |->
                          IF q = r THEN others
                          ELSE IF q \in others THEN @[q] \cup {r} ELSE @[q]]]

\* ------------------------------------------------------------------ actions
\* No function is being evaluated on its own.
NoCalc == [fn |-> "none", args |-> <<>>, out |-> <<>>]

\* The module state after construction under one configuration.
Constructed(t0, ttls, token, transformers) ==
  /\ clock = t0
  /\ ticks = 0
  /\ starts = 0
  /\ RESPONSE_CACHE_TTL_MS \in ttls
  /\ CRYPTOPANIC_TOKEN = token
  /\ ENABLE_TRANSFORMERS = transformers
  /\ responseCache = <<>>
  /\ sentimentCache = <<>>
  /\ transformersModulePromise = "null"
  /\ pipelinePromise = [t \in {"finbert", "xlmr"} |-> "null"]
  /\ factoryCalls = [t \in {"finbert", "xlmr"} |-> <<>>]
  /\ req = [r \in Req |-> IdleReq]
  /\ running = 0
  /\ hist = HistInit

InitAt(t0, ttls, token, transformers) ==
  /\ Constructed(t0, ttls, token, transformers)
  /\ calc = NoCalc

\* Time passes while no invocation holds the thread.
Tick(d) ==
  /\ running = 0
  /\ ticks < MaxTicks
  /\ clock' = clock + d
  /\ ticks' = ticks + 1
  /\ UNCHANGED <<starts, config, calc, responseCache, sentimentCache, loaders, req,
                 running, hist>>

\* The hit test with the TTL bound inclusive.
CacheHitInclusive(rc, ttl, forceRefresh, nowMs) ==
  /\ ttl > 0
  /\ ~forceRefresh
  /\ rc # <<>>
  /\ nowMs - rc[1].timestamp <= ttl

\* The hit test without the force flag.
CacheHitIgnoringForce(rc, ttl, forceRefresh, nowMs) ==
  /\ ttl > 0
  /\ rc # <<>>
  /\ nowMs - rc[1].timestamp < ttl

\* Lines 668-676: the response-cache hit test.
CacheHit(rc, ttl, forceRefresh, nowMs) ==
  /\ ttl > 0
  /\ ~forceRefresh
  /\ rc # <<>>
  /\ nowMs - rc[1].timestamp < ttl

\* The stored payload sent as it was stored.
HitBodyAsStored(rc, windowMinutes) == rc[1].payload

\* Lines 677-684: the stored payload with the window recomputed.
HitBody(rc, windowMinutes) ==
  [rc[1].payload EXCEPT !.windowMinutes = windowMinutes,
                        !.timezoneOffsetMinutes = TIMEZONE_OFFSET_MINUTES]

\* The response-cache write that keeps a payload already stored.
WriteResponseCacheKeepFirst(rc, ttl, nowMs, payload) ==
  IF ttl > 0 /\ rc = <<>> THEN <<[timestamp |-> nowMs, payload |-> payload]>> ELSE rc

\* Lines 861-863.
WriteResponseCache(rc, ttl, nowMs, payload) ==
  IF ttl > 0 THEN <<[timestamp |-> nowMs, payload |-> payload]>> ELSE rc

\* The handler sweeping the sentiment cache before it looks at the method.
StartSweepFirst(r, method, force) ==
  /\ running = 0
  /\ ~InFlight(req[r])
  /\ \A q \in Req \ {r} :
       InFlight(req[q]) \/ Age(req[r]) < Age(req[q])
                        \/ (Age(req[r]) = Age(req[q]) /\ r < q)
  /\ starts < MaxStarts
  /\ starts' = starts + 1
  /\ LET nowMs == clock
         windowMinutes == WindowMinutesAt(nowMs)
         fresh == [IdleReq EXCEPT !.method = method, !.forceRefresh = force,
                                  !.nowMs = nowMs, !.windowMinutes = windowMinutes]
         swept == cleanupSentimentCache(sentimentCache, nowMs)
     IN IF method # "GET"
        THEN /\ req' = [req EXCEPT ![r] =
                          [fresh EXCEPT !.pc = "done", !.status = 405,
                                        !.headers = {<<"Allow", "GET">>},
                                        !.body = <<[error |-> "Method not allowed"]>>]]
             /\ hist' = MutatedIf(HistStart(hist, r), r, swept # sentimentCache)
             /\ sentimentCache' = swept
        ELSE IF CacheHit(responseCache, RESPONSE_CACHE_TTL_MS, force, nowMs)
        THEN /\ req' = [req EXCEPT ![r] =
                          [fresh EXCEPT !.pc = "done", !.status = 200,
                                        !.cacheHit = TRUE,
                                        !.body = <<HitBody(responseCache, windowMinutes)>>]]
             /\ hist' = HistStart(hist, r)
             /\ UNCHANGED sentimentCache
        ELSE /\ sentimentCache' = swept
             /\ req' = [req EXCEPT ![r] =
                          [fresh EXCEPT !.pc = "await_feeds", !.swept = 1,
                                        !.feedCalls = 1]]
             /\ hist' = MutatedIf(HistStart(hist, r), r, swept # sentimentCache)
  /\ UNCHANGED <<clock, ticks, config, calc, responseCache, loaders, running>>

\* The handler from its entry to its first suspension or return (lines
\* 652-700): the method check, the window, the response-cache test and, on a
\* miss, the sweep and the start of the feed fetches.
Start(r, method, force) ==
  /\ running = 0
  /\ ~InFlight(req[r])
  /\ \A q \in Req \ {r} :
       InFlight(req[q]) \/ Age(req[r]) < Age(req[q])
                        \/ (Age(req[r]) = Age(req[q]) /\ r < q)
  /\ starts < MaxStarts
  /\ starts' = starts + 1
  /\ LET nowMs == clock
         windowMinutes == WindowMinutesAt(nowMs)
         fresh == [IdleReq EXCEPT !.method = method, !.forceRefresh = force,
                                  !.nowMs = nowMs, !.windowMinutes = windowMinutes]
         swept == cleanupSentimentCache(sentimentCache, nowMs)
     IN IF method # "GET"
        THEN /\ req' = [req EXCEPT ![r] =
                          [fresh EXCEPT !.pc = "done", !.status = 405,
                                        !.headers = {<<"Allow", "GET">>},
                                        !.body = <<[error |-> "Method not allowed"]>>]]
             /\ hist' = HistStart(hist, r)
             /\ UNCHANGED sentimentCache
        ELSE IF CacheHit(responseCache, RESPONSE_CACHE_TTL_MS, force, nowMs)
        THEN /\ req' = [req EXCEPT ![r] =
                          [fresh EXCEPT !.pc = "done", !.status = 200,
                                        !.cacheHit = TRUE,
                                        !.body = <<HitBody(responseCache, windowMinutes)>>]]
             /\ hist' = HistStart(hist, r)
             /\ UNCHANGED sentimentCache
        ELSE /\ sentimentCache' = swept
             /\ req' = [req EXCEPT ![r] =
                          [fresh EXCEPT !.pc = "await_feeds", !.swept = 1,
                                        !.feedCalls = 1]]
             /\ hist' = MutatedIf(HistStart(hist, r), r, swept # sentimentCache)
  /\ UNCHANGED <<clock, ticks, config, calc, responseCache, loaders, running>>

\* Promise.allSettled over the feed fetches: outcomes[i] is what feed i
\* delivers, order the order in which the fetches complete; the result array
\* follows the feed array.
allSettled(outcomes, order) == outcomes

Orders(n) == {o \in [1..n -> 1..n] : \A i, j \in 1..n : o[i] = o[j] => i = j}

FeedsSettled(r, outcomes, order) ==
  /\ running = 0
  /\ req[r].pc = "await_feeds"
  /\ req' = [req EXCEPT ![r] =
               [@ EXCEPT !.pc = "loop", !.fetched = outcomes,
                         !.rssResults = allSettled(outcomes, order),
                         !.fi = 1, !.ii = 1]]
  /\ running' = r
  /\ UNCHANGED <<clock, ticks, starts, config, calc, responseCache, sentimentCache,
                 loaders, hist>>

\* The loop leaving at the first rejected feed instead of going on to the next.
NextFeedAbort(r) ==
  /\ running = r
  /\ req[r].pc = "loop"
  /\ req[r].fi <= Len(req[r].rssResults)
  /\ ~Throws(req[r].rssResults[req[r].fi])
  /\ \/ req[r].rssResults[req[r].fi].status # "fulfilled"
     \/ req[r].ii > Len(req[r].rssResults[req[r].fi].items)
  /\ req' = [req EXCEPT ![r] =
               [@ EXCEPT !.fi = IF req[r].rssResults[req[r].fi].status # "fulfilled"
                                THEN Len(req[r].rssResults) + 1 ELSE @ + 1,
                         !.ii = 1]]
  /\ UNCHANGED <<clock, ticks, starts, config, calc, responseCache, sentimentCache,
                 loaders, running, hist>>

\* Lines 728-733: a rejected feed, or the end of a feed's items.
NextFeed(r) ==
  /\ running = r
  /\ req[r].pc = "loop"
  /\ req[r].fi <= Len(req[r].rssResults)
  /\ ~Throws(req[r].rssResults[req[r].fi])
  /\ \/ req[r].rssResults[req[r].fi].status # "fulfilled"
     \/ req[r].ii > Len(req[r].rssResults[req[r].fi].items)
  /\ req' = [req EXCEPT ![r] = [@ EXCEPT !.fi = @ + 1, !.ii = 1]]
  /\ UNCHANGED <<clock, ticks, starts, config, calc, responseCache, sentimentCache,
                 loaders, running, hist>>

CurrentItem(rq) == rq.rssResults[rq.fi].items[rq.ii]

HasItem(rq) ==
  /\ rq.pc = "loop"
  /\ rq.fi <= Len(rq.rssResults)
  /\ rq.rssResults[rq.fi].status = "fulfilled"
  /\ rq.ii <= Len(rq.rssResults[rq.fi].items)

\* Lines 734-746: the item is dropped before scoring.
Dropped(rq, item) ==
  LET link == normalizeLink(item.link)
  IN \/ link.kind = "empty"
     \/ link \in rq.seen
     \/ ~withinWindow(item.pubDate, rq.nowMs, rq.windowMinutes)

\* A post of the secondary source.
Post(title, url, domain, published_at) ==
  [title |-> title, url |-> url, domain |-> domain, published_at |-> published_at,
   description |-> <<>>, isNull |-> FALSE]

\* A null among json.results: reading post.url (line 791) throws.
NullPost == [Post(<<>>, EmptyLink, "", InvalidDate) EXCEPT !.isNull = TRUE]

\* post.url || post.domain || '': a domain alone is not a URL.
PostLink(post) ==
  IF post.url.kind # "empty" THEN post.url
  ELSE IF post.domain # ""
       THEN [kind |-> "invalid", host |-> post.domain, params |-> <<>>, hash |-> ""]
       ELSE EmptyLink

\* The dedup test of the posts left out.
DroppedPostUnseen(rq, post) ==
  LET link == normalizeLink(PostLink(post))
  IN \/ link.kind = "empty"
     \/ toDate(post.published_at) = InvalidDate
     \/ ~withinWindow(post.published_at, rq.nowMs, rq.windowMinutes)

\* Lines 791-801: the post is dropped before scoring.
DroppedPost(rq, post) ==
  LET link == normalizeLink(PostLink(post))
  IN \/ link.kind = "empty"
     \/ link \in rq.seen
     \/ toDate(post.published_at) = InvalidDate
     \/ ~withinWindow(post.published_at, rq.nowMs, rq.windowMinutes)

CurrentPost(rq) == rq.posts[rq.ii]

HasPost(rq) ==
  /\ rq.pc = "cp_loop"
  /\ rq.ii <= Len(rq.posts)
  /\ ~rq.posts[rq.ii].isNull

\* The post loop is at a post whose reading throws.
AtNullPost(rq) ==
  /\ rq.pc = "cp_loop"
  /\ rq.ii <= Len(rq.posts)
  /\ rq.posts[rq.ii].isNull

\* The entry the loops are at, an item of the current feed or a post of the
\* secondary source: what scoring and weighting take from it.
Entry(rq) ==
  IF rq.pc = "loop"
  THEN LET item == CurrentItem(rq)
           link == normalizeLink(item.link)
       IN [pc |-> "loop", title |-> item.title, snippet |-> item.contentSnippet,
           link |-> link, pubDate |-> toDate(item.pubDate),
           source |-> resolveSource(item, link), dropped |-> Dropped(rq, item)]
  ELSE LET post == CurrentPost(rq)
           link == normalizeLink(PostLink(post))
       IN [pc |-> "cp_loop", title |-> post.title, snippet |-> post.description,
           link |-> link, pubDate |-> toDate(post.published_at),
           source |-> IF post.domain # "" THEN post.domain ELSE "CryptoPanic",
           dropped |-> DroppedPost(rq, post)]

\* scoreSentiment with ENABLE_TRANSFORMERS off, or on an empty text.
LexiconOnly(title, snippet) ==
  \/ ~ENABLE_TRANSFORMERS
  \/ title \o snippet = <<>>

\* Lines 755-781 and 809-827: store the sentiment scored for entry e, weight
\* the entry, mark its link seen, accumulate and push it.
StoreAndAccept(r, rq, cache, e, sentimentResult) ==
  /\ sentimentCache' = setCachedSentiment(cache, e.link, sentimentResult, rq.nowMs)
  /\ req' = [req EXCEPT ![r] =
               [AcceptItem([rq EXCEPT !.pc = e.pc, !.ii = @ + 1, !.pending = <<>>],
                           e.title, e.link, e.pubDate, e.source, sentimentResult)
                EXCEPT !.scored = @ \cup {e.link}]]

Stored(h, r, e, rq) ==
  [Mutated(h, r) EXCEPT !.stores = @ \cup {[link |-> e.link, t |-> rq.nowMs]}]

\* Lines 733-781 and 790-827 for one item or post whose scoring does not wait
\* for a model: drop it, or take its sentiment from the cache or the lexicon,
\* store it, weight it and push it.
ProcessItem(r) ==
  /\ running = r
  /\ HasItem(req[r]) \/ HasPost(req[r])
  /\ LET rq == req[r]
         e == Entry(rq)
         cached == getCachedSentiment(sentimentCache, e.link, rq.nowMs)
         afterGet == CacheAfterGet(sentimentCache, e.link, rq.nowMs)
         fresh == scoreSentimentLexicon(e.title, e.snippet)
     IN IF e.dropped
        THEN /\ req' = [req EXCEPT ![r] = [rq EXCEPT !.ii = @ + 1]]
             /\ UNCHANGED <<sentimentCache, hist>>
        ELSE IF cached # <<>>
        THEN /\ req' = [req EXCEPT ![r] =
                          [AcceptItem([rq EXCEPT !.ii = @ + 1], e.title, e.link,
                                      e.pubDate, e.source, cached[1])
                           EXCEPT !.reused = @ \cup {e.link}]]
             /\ sentimentCache' = afterGet
             /\ UNCHANGED hist
        ELSE /\ LexiconOnly(e.title, e.snippet)
             /\ StoreAndAccept(r, rq, afterGet, e, fresh)
             /\ hist' = Stored(hist, r, e, rq)
  /\ UNCHANGED <<clock, ticks, starts, config, calc, responseCache, loaders, running>>

\* Lines 749-753 for an item or post that needs the model: the cache read
\* misses, scoreSentiment picks the track and asks for its classifier, which
\* starts the loader if the track's slot is null (and the import of the
\* module if that slot is null), and the invocation suspends on the promise.
AwaitModel(r) ==
  /\ running = r
  /\ HasItem(req[r]) \/ HasPost(req[r])
  /\ LET rq == req[r]
         e == Entry(rq)
         afterGet == CacheAfterGet(sentimentCache, e.link, rq.nowMs)
         track == IF hasHangul(e.title \o e.snippet) THEN "xlmr" ELSE "finbert"
         promises == getTextClassificationPipeline(pipelinePromise, track)
         created == promises[track] # pipelinePromise[track]
         modulePromise == IF created THEN getTransformersModule(transformersModulePromise)
                          ELSE transformersModulePromise
     IN /\ ~e.dropped
        /\ getCachedSentiment(sentimentCache, e.link, rq.nowMs) = <<>>
        /\ ~LexiconOnly(e.title, e.snippet)
        /\ sentimentCache' = afterGet
        /\ pipelinePromise' = promises
        /\ transformersModulePromise' = modulePromise
        /\ factoryCalls' = IF created THEN [factoryCalls EXCEPT ![track] = <<>>]
                           ELSE factoryCalls
        /\ req' = [req EXCEPT ![r] =
                     [rq EXCEPT !.pc = "await_model",
                                !.pending = <<[entry |-> e, track |-> track]>>]]
        /\ hist' = [MutatedIf(hist, r, afterGet # sentimentCache) EXCEPT
                      !.loads[track] = IF created THEN @ + 1 ELSE @,
                      !.imports = IF modulePromise # transformersModulePromise
                                  THEN @ + 1 ELSE @]
  /\ running' = 0
  /\ UNCHANGED <<clock, ticks, starts, config, calc, responseCache>>

\* The import of the transformers module settles: with the module, or (the
\* import failed, or the module has no pipeline function) with nothing usable.
ModuleSettled(ok) ==
  /\ running = 0
  /\ transformersModulePromise = "pending"
  /\ transformersModulePromise' = IF ok THEN "module" ELSE "unavailable"
  /\ UNCHANGED <<clock, ticks, starts, config, calc, responseCache, sentimentCache,
                 pipelinePromise, factoryCalls, req, running, hist>>

\* The model ids createModelPipeline goes through for a track, no
\* FINBERT_MODEL_ID or XLMR_MODEL_ID being set.
FINBERT_MODEL_CANDIDATES ==
  <<"ProsusAI/finbert", "Xenova/finbert", "Xenova/finbert-tone",
    "Xenova/bert-base-uncased-finetuned-sst-2-english">>
XLMR_MODEL_CANDIDATES ==
  <<"cardiffnlp/twitter-xlm-roberta-base-sentiment",
    "Xenova/twitter-xlm-roberta-base-sentiment",
    "Xenova/bert-base-multilingual-uncased-sentiment">>

Candidates(track) ==
  IF track = "finbert" THEN FINBERT_MODEL_CANDIDATES ELSE XLMR_MODEL_CANDIDATES

\* Lines 414-435: the pipelineFactory call that follows the calls made: each
\* candidate in turn, quantized first and then, that having failed, plain.
NextFactoryCall(track, calls) ==
  [modelId |-> Candidates(track)[(Len(calls) \div 2) + 1],
   quantized |-> Len(calls) % 2 = 0]

\* createModelPipeline moves on (lines 399-436): with an unusable module it
\* settles with null; else the pipelineFactory call it is waiting for
\* settles, with a pipeline, which settles the promise, or with an error,
\* after which it makes the next call or, none being left, settles with
\* null.  It never rejects.
PipelineSettled(track, ok) ==
  /\ running = 0
  /\ pipelinePromise[track] = "pending"
  /\ transformersModulePromise \in {"module", "unavailable"}
  /\ ok => transformersModulePromise = "module"
  /\ IF transformersModulePromise = "unavailable"
     THEN /\ pipelinePromise' = [pipelinePromise EXCEPT ![track] = "unavailable"]
          /\ UNCHANGED factoryCalls
     ELSE LET calls == Append(factoryCalls[track],
                              NextFactoryCall(track, factoryCalls[track]))
          IN /\ factoryCalls' = [factoryCalls EXCEPT ![track] = calls]
             /\ pipelinePromise' =
                  [pipelinePromise EXCEPT ![track] =
                     IF ok THEN "ready"
                     ELSE IF Len(calls) = 2 * Len(Candidates(track)) THEN "unavailable"
                     ELSE "pending"]
  /\ UNCHANGED <<clock, ticks, starts, config, calc, responseCache, sentimentCache,
                 transformersModulePromise, req, running, hist>>

\* An invocation left suspended when its track has no classifier.
ModelUnavailableSuspended(r) ==
  /\ running = 0
  /\ req[r].pc = "await_model"
  /\ pipelinePromise[req[r].pending[1].track] = "unavailable"
  /\ UNCHANGED vars

\* Lines 465-468: the track has no classifier; scoreSentimentModel yields
\* null, the lexicon score stands, and the invocation goes on.
ModelUnavailable(r) ==
  /\ running = 0
  /\ req[r].pc = "await_model"
  /\ LET rq == [req[r] EXCEPT !.inference = "unavailable"]
         e == rq.pending[1].entry
         track == rq.pending[1].track
         lexiconScore == scoreSentimentLexicon(e.title, e.snippet)
     IN /\ pipelinePromise[track] = "unavailable"
        /\ StoreAndAccept(r, rq, sentimentCache, e, combineSentiments(<<>>, lexiconScore))
        /\ hist' = [Stored(hist, r, e, rq) EXCEPT !.fallbacks[track] = Min(2, @ + 1)]
  /\ running' = r
  /\ UNCHANGED <<clock, ticks, starts, config, calc, responseCache, loaders>>

\* How a classifier call ended.
InferenceKind(outcome) ==
  IF outcome.status # "fulfilled" THEN "rejected"
  ELSE IF outcome.outputs = <<>> THEN "empty" ELSE "classified"

\* The classifier called once more when its first call for an entry rejects.
InferredRetry(r, outcome) ==
  /\ running = 0
  /\ req[r].pc = "await_model"
  /\ LET rq == [req[r] EXCEPT !.inferCalls = @ + 1,
                              !.inference = InferenceKind(outcome)]
         e == rq.pending[1].entry
         lexiconScore == scoreSentimentLexicon(e.title, e.snippet)
     IN /\ pipelinePromise[rq.pending[1].track] = "ready"
        /\ IF outcome.status = "rejected" /\ req[r].inferCalls <= Len(req[r].items)
           THEN /\ req' = [req EXCEPT ![r] = rq]
                /\ running' = 0
                /\ UNCHANGED <<sentimentCache, hist>>
           ELSE /\ StoreAndAccept(r, rq, sentimentCache, e,
                                  combineSentiments(scoreSentimentModel(outcome), lexiconScore))
                /\ hist' = Stored(hist, r, e, rq)
                /\ running' = r
  /\ UNCHANGED <<clock, ticks, starts, config, calc, responseCache, loaders>>

\* Lines 469-508 and 556: the classifier answers (or rejects); the model
\* score is combined with the lexicon score and the invocation goes on.
Inferred(r, outcome) ==
  /\ running = 0
  /\ req[r].pc = "await_model"
  /\ LET rq == [req[r] EXCEPT !.inferCalls = @ + 1,
                              !.inference = InferenceKind(outcome)]
         e == rq.pending[1].entry
         lexiconScore == scoreSentimentLexicon(e.title, e.snippet)
     IN /\ pipelinePromise[rq.pending[1].track] = "ready"
        /\ StoreAndAccept(r, rq, sentimentCache, e,
                          combineSentiments(scoreSentimentModel(outcome), lexiconScore))
        /\ hist' = Stored(hist, r, e, rq)
  /\ running' = r
  /\ UNCHANGED <<clock, ticks, starts, config, calc, responseCache, loaders>>

\* Line 784: the feed loops are over; with a token the invocation fetches the
\* secondary source and suspends.
LoopDone(r) ==
  /\ running = r
  /\ req[r].pc = "loop"
  /\ req[r].fi > Len(req[r].rssResults)
  /\ req' = [req EXCEPT ![r] =
               [@ EXCEPT !.pc = IF CRYPTOPANIC_TOKEN THEN "await_cp" ELSE "finish",
                         !.cpCalls = IF CRYPTOPANIC_TOKEN THEN @ + 1 ELSE @]]
  /\ running' = IF CRYPTOPANIC_TOKEN THEN 0 ELSE r
  /\ UNCHANGED <<clock, ticks, starts, config, calc, responseCache, sentimentCache,
                 loaders, hist>>

\* What the secondary fetch delivers: a rejected fetch, a response that is
\* not ok, a body that is not JSON, or the posts.
CpFailures ==
  {[status |-> st, results |-> <<>>] : st \in {"rejected", "not_ok", "bad_json"}}
CpPosts(results) == [status |-> "ok", results |-> results]
CpOutcomes(S, n) == CpFailures \cup { CpPosts(s) : s \in SeqsUpTo(S, n) }

\* Lines 787-790 and 828-830: the secondary fetch and its JSON body settle;
\* any failure is swallowed and the computation goes on without posts.
CpSettled(r, outcome) ==
  /\ running = 0
  /\ req[r].pc = "await_cp"
  /\ req' = [req EXCEPT ![r] =
               IF outcome.status = "ok"
               THEN [@ EXCEPT !.pc = "cp_loop", !.posts = outcome.results, !.ii = 1]
               ELSE [@ EXCEPT !.pc = "finish", !.cpError = outcome.status]]
  /\ running' = r
  /\ UNCHANGED <<clock, ticks, starts, config, calc, responseCache, sentimentCache,
                 loaders, hist>>

\* Line 790: no post is left.
PostsDone(r) ==
  /\ running = r
  /\ req[r].pc = "cp_loop"
  /\ req[r].ii > Len(req[r].posts)
  /\ req' = [req EXCEPT ![r] = [@ EXCEPT !.pc = "finish"]]
  /\ UNCHANGED <<clock, ticks, starts, config, calc, responseCache, sentimentCache,
                 loaders, running, hist>>

\* Lines 790-791 and 828-830: reading a null post throws inside the inner
\* try; the catch swallows the fault and the handler goes on to the sort of
\* line 843 with the items, sums and counts as the earlier posts left them.
PostFault(r) ==
  /\ running = r
  /\ AtNullPost(req[r])
  /\ req' = [req EXCEPT ![r] = [@ EXCEPT !.pc = "finish", !.cpError = "post"]]
  /\ UNCHANGED <<clock, ticks, starts, config, calc, responseCache, sentimentCache,
                 loaders, running, hist>>

\* What remains of an invocation's locals once it has responded.
Responded(rq, status, body) ==
  [IdleReq EXCEPT !.pc = "done", !.method = rq.method,
                  !.forceRefresh = rq.forceRefresh, !.nowMs = rq.nowMs,
                  !.windowMinutes = rq.windowMinutes,
                  !.status = status, !.body = body]

\* Lines 843-865: sort, build the payload, store it, answer 200.
Respond(r) ==
  /\ running = r
  /\ req[r].pc = "finish"
  /\ LET response == PayloadOf(req[r], clock)
         written == WriteResponseCache(responseCache, RESPONSE_CACHE_TTL_MS,
                                       req[r].nowMs, response)
     IN /\ responseCache' = written
        /\ req' = [req EXCEPT ![r] = Responded(@, 200, <<response>>)]
        /\ hist' = [MutatedIf(hist, r, RESPONSE_CACHE_TTL_MS > 0)
                    EXCEPT !.replaced = @ \/ (RESPONSE_CACHE_TTL_MS > 0 /\ responseCache # <<>>)]
  /\ running' = 0
  /\ UNCHANGED <<clock, ticks, starts, config, calc, sentimentCache, loaders>>

\* The feed loop going on to the next feed when a feed's value throws.
FeedFaultSwallowed(r) ==
  /\ running = r
  /\ req[r].pc = "loop"
  /\ req[r].fi <= Len(req[r].rssResults)
  /\ Throws(req[r].rssResults[req[r].fi])
  /\ req' = [req EXCEPT ![r] = [@ EXCEPT !.fi = @ + 1, !.ii = 1]]
  /\ UNCHANGED <<clock, ticks, starts, config, calc, responseCache, sentimentCache,
                 loaders, running, hist>>

\* Lines 732 and 866-868: the feed's value throws, the handler's catch
\* answers 500 with the generic message.
FeedFault(r) ==
  /\ running = r
  /\ req[r].pc = "loop"
  /\ req[r].fi <= Len(req[r].rssResults)
  /\ Throws(req[r].rssResults[req[r].fi])
  /\ req' = [req EXCEPT ![r] =
               Responded(@, 500, <<[error |-> "Failed to generate sentiment signal"]>>)]
  /\ running' = 0
  /\ UNCHANGED <<clock, ticks, starts, config, calc, responseCache, sentimentCache,
                 loaders, hist>>

\* The caching runs, from midnight, minute by minute: up to MaxStarts
\* invocations, MaxReq of them at a time, over CacheFeeds feeds of at most
\* CacheFeedItems articles.
Init == InitAt(Midnight, ResponseTtlSettings, FALSE, FALSE)

Next ==
  \/ \E d \in {MinuteMs} : Tick(d)
  \/ \E r \in Req, force \in BOOLEAN : Start(r, "GET", force)
  \/ \E r \in Req, outcomes \in RssResultSets(CacheFeeds, CacheItems, CacheFeedItems),
          order \in Orders(CacheFeeds) :
        FeedsSettled(r, outcomes, order)
  \/ \E r \in Req : NextFeed(r)
  \/ \E r \in Req : ProcessItem(r)
  \/ \E r \in Req : LoopDone(r)
  \/ \E r \in Req : Respond(r)

Spec == Init /\ [][Next]_vars

\* The sentiment-cache runs: the caching runs under the default response TTL,
\* with time also advancing by a little less than the sentiment TTL.
InitSent == InitAt(Midnight, {DEFAULT_RESPONSE_TTL_MS}, FALSE, FALSE)

NextSent ==
  \/ \E d \in TickDeltas : Tick(d)
  \/ \E r \in Req, force \in BOOLEAN : Start(r, "GET", force)
  \/ \E r \in Req, outcomes \in RssResultSets(CacheFeeds, CacheItems, CacheFeedItems),
          order \in Orders(CacheFeeds) :
        FeedsSettled(r, outcomes, order)
  \/ \E r \in Req : NextFeed(r)
  \/ \E r \in Req : ProcessItem(r)
  \/ \E r \in Req : LoopDone(r)
  \/ \E r \in Req : Respond(r)

SpecSent == InitSent /\ [][NextSent]_vars

\* The ingestion runs: one invocation, at 23:59 or any later instant, over
\* every combination of feed outcomes of up to MaxItems articles.
InitIngest == InitAt(T0, {DEFAULT_RESPONSE_TTL_MS}, FALSE, FALSE)

NextIngest ==
  \/ \E d \in TickDeltas : starts = 0 /\ Tick(d)
  \/ \E force \in BOOLEAN : starts = 0 /\ Start(1, "GET", force)
  \/ \E outcomes \in RssResultSets(NumFeeds, FeedItems, MaxItems), order \in Orders(NumFeeds) :
        FeedsSettled(1, outcomes, order)
  \/ NextFeed(1)
  \/ ProcessItem(1)
  \/ LoopDone(1)
  \/ Respond(1)

SpecIngest == InitIngest /\ [][NextIngest]_vars

\* The articles and posts of the runs with the secondary source, all
\* published at midnight: posts under the links of articles, a post with only
\* a domain, a post without a date.
SecItems ==
  { RssItem(<<"surge!">>, LinkB, Midnight, ""),
    RssItem(<<"Hack,">>, LinkAutm, Midnight, "") }

SecPosts ==
  { Post(<<"sell-off">>, LinkB, "example.org", Midnight),
    Post(<<"bitcoin">>, LinkA, "", Midnight),
    Post(<<"Rally">>, EmptyLink, "cointelegraph.com", Midnight),
    Post(<<"gain">>, LinkC, "Cointelegraph", InvalidDate) }

\* The runs with a CRYPTOPANIC_TOKEN: one invocation, at midnight, over CacheFeeds feeds of up to MaxItems articles and up to
\* MaxPosts posts.
InitSec == InitAt(Midnight, {DEFAULT_RESPONSE_TTL_MS}, TRUE, FALSE)

NextSec ==
  \/ \E force \in BOOLEAN : Start(1, "GET", force)
  \/ \E outcomes \in RssResultSets(CacheFeeds, SecItems, MaxItems), order \in Orders(CacheFeeds) :
        FeedsSettled(1, outcomes, order)
  \/ NextFeed(1)
  \/ ProcessItem(1)
  \/ LoopDone(1)
  \/ \E outcome \in CpOutcomes(SecPosts, MaxPosts) : CpSettled(1, outcome)
  \/ PostsDone(1)
  \/ Respond(1)

SpecSec == InitSec /\ [][NextSec]_vars

\* The articles of the runs with the models: one for each track, and one
\* without text.
MLItems ==
  { RssItem(<<"surge!">>, LinkB, Midnight, ""),
    RssItem(<<"hangul", "Hack,">>, LinkC, Midnight, ""),
    RssItem(<<>>, LinkA, Midnight, "") }

\* What a classifier call can deliver.
ModelOutcomes ==
  { InferenceFailed,
    Classified(<<>>),
    Classified(<<[label |-> "LABEL_2", score |-> 90], [label |-> "NEGATIVE", score |-> 6]>>),
    Classified(<<[label |-> "neutral", score |-> 55], [label |-> "Positive", score |-> 30]>>) }

\* The runs with ENABLE_TRANSFORMERS: up to MaxStarts invocations, MaxReq of
\* them at a time, at midnight, over CacheFeeds feeds of at most
\* CacheFeedItems articles.
InitML == InitAt(Midnight, {DEFAULT_RESPONSE_TTL_MS}, FALSE, TRUE)

NextML ==
  \/ \E r \in Req, force \in BOOLEAN : Start(r, "GET", force)
  \/ \E r \in Req, outcomes \in RssResultSets(CacheFeeds, MLItems, CacheFeedItems),
          order \in Orders(CacheFeeds) :
        FeedsSettled(r, outcomes, order)
  \/ \E r \in Req : NextFeed(r)
  \/ \E r \in Req : ProcessItem(r)
  \/ \E r \in Req : AwaitModel(r)
  \/ \E ok \in BOOLEAN : ModuleSettled(ok)
  \/ \E track \in {"finbert", "xlmr"}, ok \in BOOLEAN : PipelineSettled(track, ok)
  \/ \E r \in Req : ModelUnavailable(r)
  \/ \E r \in Req, outcome \in ModelOutcomes : Inferred(r, outcome)
  \/ \E r \in Req : LoopDone(r)
  \/ \E r \in Req : Respond(r)

SpecML == InitML /\ [][NextML]_vars

\* The article and the posts of the runs with every external call.
ExtItems == { RssItem(<<"surge!">>, LinkB, Midnight, "") }

ExtPosts ==
  { Post(<<"hangul", "Hack,">>, LinkC, "Cointelegraph", Midnight),
    Post(<<"sell-off">>, LinkB, "example.org", Midnight) }

\* The runs with a CRYPTOPANIC_TOKEN and ENABLE_TRANSFORMERS: one
\* invocation, at midnight, over CacheFeeds feeds of at most CacheFeedItems
\* articles and up to MaxPosts posts.
InitExt == InitAt(Midnight, {DEFAULT_RESPONSE_TTL_MS}, TRUE, TRUE)

NextExt ==
  \/ \E force \in BOOLEAN : Start(1, "GET", force)
  \/ \E outcomes \in RssResultSets(CacheFeeds, ExtItems, CacheFeedItems),
          order \in Orders(CacheFeeds) :
        FeedsSettled(1, outcomes, order)
  \/ NextFeed(1)
  \/ ProcessItem(1)
  \/ AwaitModel(1)
  \/ \E ok \in BOOLEAN : ModuleSettled(ok)
  \/ \E track \in {"finbert", "xlmr"}, ok \in BOOLEAN : PipelineSettled(track, ok)
  \/ ModelUnavailable(1)
  \/ \E outcome \in ModelOutcomes : Inferred(1, outcome)
  \/ LoopDone(1)
  \/ \E outcome \in CpOutcomes(ExtPosts, MaxPosts) : CpSettled(1, outcome)
  \/ PostsDone(1)
  \/ Respond(1)

SpecExt == InitExt /\ [][NextExt]_vars

\* The runs with faults: the caching runs under the default TTL over NumFeeds
\* feeds, any of which may deliver undefined.
FaultItems == { RssItem(<<"surge!">>, LinkB, Midnight, "") }

FaultOutcomes == FeedOutcomes(FaultItems, CacheFeedItems) \cup {Undefined}

InitFault == InitAt(Midnight, {DEFAULT_RESPONSE_TTL_MS}, FALSE, FALSE)

NextFault ==
  \/ \E d \in {MinuteMs} : Tick(d)
  \/ \E r \in Req, force \in BOOLEAN : Start(r, "GET", force)
  \/ \E r \in Req, outcomes \in [1..NumFeeds -> FaultOutcomes], order \in Orders(NumFeeds) :
        FeedsSettled(r, outcomes, order)
  \/ \E r \in Req : NextFeed(r)
  \/ \E r \in Req : FeedFault(r)
  \/ \E r \in Req : ProcessItem(r)
  \/ \E r \in Req : LoopDone(r)
  \/ \E r \in Req : Respond(r)

SpecFault == InitFault /\ [][NextFault]_vars

\* The runs of the secondary source with faults: one invocation at midnight,
\* with or without a CRYPTOPANIC_TOKEN, over CacheFeeds feeds of up to
\* CacheFeedItems articles and up to MaxPosts posts, a null among them.
FaultPosts ==
  { Post(<<"sell-off">>, LinkB, "example.org", Midnight),
    Post(<<"bitcoin">>, LinkA, "", Midnight),
    NullPost }

InitPosts ==
  \E token \in BOOLEAN : InitAt(Midnight, {DEFAULT_RESPONSE_TTL_MS}, token, FALSE)

NextPosts ==
  \/ \E force \in BOOLEAN : Start(1, "GET", force)
  \/ \E outcomes \in RssResultSets(CacheFeeds, FaultItems, CacheFeedItems), order \in Orders(CacheFeeds) :
        FeedsSettled(1, outcomes, order)
  \/ NextFeed(1)
  \/ ProcessItem(1)
  \/ LoopDone(1)
  \/ \E outcome \in CpOutcomes(FaultPosts, MaxPosts) : CpSettled(1, outcome)
  \/ PostFault(1)
  \/ PostsDone(1)
  \/ Respond(1)

SpecPosts == InitPosts /\ [][NextPosts]_vars

\* Request methods the handler does not serve.
OtherMethods == {"POST", "HEAD"}

\* The runs with other methods: GET invocations in slot 1 and invocations
\* with another method in slot 2, before, during and after the computations,
\* with time advancing as in the sentiment-cache runs.
InitMethod == InitAt(Midnight, {DEFAULT_RESPONSE_TTL_MS}, FALSE, FALSE)

NextMethod ==
  \/ \E d \in TickDeltas : Tick(d)
  \/ \E force \in BOOLEAN : Start(1, "GET", force)
  \/ \E method \in OtherMethods, force \in BOOLEAN : Start(2, method, force)
  \/ \E outcomes \in RssResultSets(CacheFeeds, CacheItems, CacheFeedItems),
          order \in Orders(CacheFeeds) :
        FeedsSettled(1, outcomes, order)
  \/ NextFeed(1)
  \/ ProcessItem(1)
  \/ LoopDone(1)
  \/ Respond(1)

SpecMethod == InitMethod /\ [][NextMethod]_vars

\* The runs to completion: overlapping invocations with GET and another
\* method in both slots, at midnight, with a CRYPTOPANIC_TOKEN and
\* ENABLE_TRANSFORMERS, over CacheFeeds feeds delivering one article of
\* negative wording or an undefined value and a secondary source that rejects or delivers no post
\* or a null one, each external call settling either way.
LiveFeedOutcomes == { Undefined, Fulfilled(<<RssItem(<<"Hack,">>, LinkB, Midnight, "")>>) }

LiveCpOutcomes == { [status |-> "rejected", results |-> <<>>], CpPosts(<<>>), CpPosts(<<NullPost>>) }

LiveModelOutcomes ==
  { InferenceFailed,
    Classified(<<[label |-> "NEGATIVE", score |-> 90], [label |-> "LABEL_2", score |-> 6]>>) }

InitLive == InitAt(Midnight, {DEFAULT_RESPONSE_TTL_MS}, TRUE, TRUE)

FeedsSettle(r) ==
  \E outcomes \in [1..CacheFeeds -> LiveFeedOutcomes], order \in Orders(CacheFeeds) :
     FeedsSettled(r, outcomes, order)

CpSettle(r) == \E outcome \in LiveCpOutcomes : CpSettled(r, outcome)

ModuleSettle == \E ok \in BOOLEAN : ModuleSettled(ok)

PipelineSettle(track) == \E ok \in BOOLEAN : PipelineSettled(track, ok)

InferenceSettle(r) == \E outcome \in LiveModelOutcomes : Inferred(r, outcome)

NextLive ==
  \/ \E r \in Req, method \in {"GET", "POST"}, force \in BOOLEAN : Start(r, method, force)
  \/ \E r \in Req : FeedsSettle(r)
  \/ \E r \in Req : NextFeed(r)
  \/ \E r \in Req : FeedFault(r)
  \/ \E r \in Req : ProcessItem(r)
  \/ \E r \in Req : AwaitModel(r)
  \/ ModuleSettle
  \/ \E track \in {"finbert", "xlmr"} : PipelineSettle(track)
  \/ \E r \in Req : ModelUnavailable(r)
  \/ \E r \in Req : InferenceSettle(r)
  \/ \E r \in Req : LoopDone(r)
  \/ \E r \in Req : CpSettle(r)
  \/ \E r \in Req : PostFault(r)
  \/ \E r \in Req : PostsDone(r)
  \/ \E r \in Req : Respond(r)

\* The steps other than arrivals: the synchronous stretches of the
\* invocations and the continuations of their awaits.
Progress ==
  \/ \E r \in Req : FeedsSettle(r) \/ NextFeed(r) \/ FeedFault(r) \/ ProcessItem(r)
  \/ \E r \in Req : AwaitModel(r) \/ ModelUnavailable(r) \/ InferenceSettle(r)
  \/ ModuleSettle
  \/ \E track \in {"finbert", "xlmr"} : PipelineSettle(track)
  \/ \E r \in Req : LoopDone(r) \/ CpSettle(r) \/ PostFault(r) \/ PostsDone(r) \/ Respond(r)

\* Every external call settles and the event loop runs what is ready: the
\* synchronous stretch of an invocation up to its next await or return
\* (lines 648-869 hold no loop without an exit) and the continuation of an
\* await whose promise has settled.  Nothing is asked of arrivals.
FairLive == WF_vars(Progress)

SpecLive == InitLive /\ [][NextLive]_vars /\ FairLive

\* The runs over publish times: one invocation at 00:02 with a
\* CRYPTOPANIC_TOKEN, over CacheFeeds feeds of up to MaxItems articles and up
\* to MaxPosts posts published at 00:00, 00:01 and 00:02, in any order.
OrderItems ==
  { RssItem(<<"surge!">>, LinkA, Midnight, ""),
    RssItem(<<"Hack,">>, LinkB, Midnight + MinuteMs, ""),
    RssItem(<<"bitcoin">>, LinkC, Midnight + 2 * MinuteMs, "") }

OrderPosts ==
  { Post(<<"sell-off">>, LinkA, "", Midnight),
    Post(<<"gain">>, LinkB, "", Midnight + MinuteMs),
    Post(<<"Rally">>, LinkC, "", Midnight + 2 * MinuteMs) }

InitOrder == InitAt(Midnight + 2 * MinuteMs, {DEFAULT_RESPONSE_TTL_MS}, TRUE, FALSE)

NextOrder ==
  \/ \E force \in BOOLEAN : Start(1, "GET", force)
  \/ \E outcomes \in RssResultSets(CacheFeeds, OrderItems, MaxItems), order \in Orders(CacheFeeds) :
        FeedsSettled(1, outcomes, order)
  \/ NextFeed(1)
  \/ ProcessItem(1)
  \/ LoopDone(1)
  \/ \E outcome \in CpOutcomes(OrderPosts, MaxPosts) : CpSettled(1, outcome)
  \/ PostsDone(1)
  \/ Respond(1)

SpecOrder == InitOrder /\ [][NextOrder]_vars

\* The runs across midnight: requests in both slots from 23:59:30 on, half a
\* minute apart, under the default TTL, over CacheFeeds feeds of up to
\* CacheFeedItems articles published an hour before the first request.
HalfMinuteMs == MinuteMs \div 2

BeforeMidnight == DayMs - HalfMinuteMs

MidnightItems == { RssItem(<<"surge!">>, LinkB, BeforeMidnight - 60 * MinuteMs, "") }

InitMidnight == InitAt(BeforeMidnight, {DEFAULT_RESPONSE_TTL_MS}, FALSE, FALSE)

NextMidnight ==
  \/ Tick(HalfMinuteMs)
  \/ \E r \in Req, force \in BOOLEAN : Start(r, "GET", force)
  \/ \E r \in Req, outcomes \in RssResultSets(CacheFeeds, MidnightItems, CacheFeedItems),
          order \in Orders(CacheFeeds) :
        FeedsSettled(r, outcomes, order)
  \/ \E r \in Req : NextFeed(r)
  \/ \E r \in Req : ProcessItem(r)
  \/ \E r \in Req : LoopDone(r)
  \/ \E r \in Req : Respond(r)

SpecMidnight == InitMidnight /\ [][NextMidnight]_vars

\* The articles of the weighting runs: a title of three positive words, a
\* negative one from Reuters, and two neutral ones, of different ages.
WeighItems ==
  { RssItem(<<"surge!", "Rally", "gain">>, LinkA, T0 - MinuteMs, ""),
    RssItem(<<"Hack,">>, LinkB, T0 - 2 * MinuteMs, "Reuters"),
    RssItem(<<"bitcoin">>, LinkC, T0, ""),
    RssItem(<<"ETF/ban">>, LinkAutm, T0 - MinuteMs, "") }

\* The runs of one invocation, started at T0 or later, over NumFeeds feeds
\* of up to MaxItems of these articles.
InitWeigh == InitAt(T0, {DEFAULT_RESPONSE_TTL_MS}, FALSE, FALSE)

NextWeigh ==
  \/ \E d \in TickDeltas : starts = 0 /\ Tick(d)
  \/ \E force \in BOOLEAN : starts = 0 /\ Start(1, "GET", force)
  \/ \E outcomes \in RssResultSets(NumFeeds, WeighItems, MaxItems), order \in Orders(NumFeeds) :
        FeedsSettled(1, outcomes, order)
  \/ NextFeed(1)
  \/ ProcessItem(1)
  \/ LoopDone(1)
  \/ Respond(1)

SpecWeigh == InitWeigh /\ [][NextWeigh]_vars

\* ------------------------------------------- the functions, one call each
\* One call of the function fn on args, not yet returned.
Call(fn, args) == [fn |-> fn, args |-> args, out |-> <<>>]

\* The call of fn returns value; the module state is not touched.
Return(fn, value) ==
  /\ calc.fn = fn
  /\ calc.out = <<>>
  /\ calc' = [calc EXCEPT !.out = <<value>>]
  /\ UNCHANGED <<clock, ticks, starts, config, responseCache, sentimentCache,
                 loaders, req, running, hist>>

Returned(fn) == calc.fn = fn /\ calc.out # <<>>

\* Class probabilities in hundredths, on both sides of 0.4 and of a
\* difference of 0.05.
Probabilities == {0, 4, 5, 30, 32, 38, 39, 40, 45, 60}

\* What the classifier delivers for one probability per class.
TopK(positive, negative, neutral) ==
  Classified(<<[label |-> "LABEL_2", score |-> positive],
               [label |-> "NEGATIVE", score |-> negative],
               [label |-> "neutral", score |-> neutral]>>)

ApplyScoreSentimentModel ==
  /\ calc.fn = "scoreSentimentModel"
  /\ Return("scoreSentimentModel",
            scoreSentimentModel(TopK(calc.args[1], calc.args[2], calc.args[3])))

\* scoreSentimentModel on every triple of class probabilities.
InitModelScore ==
  /\ Constructed(Midnight, {DEFAULT_RESPONSE_TTL_MS}, FALSE, FALSE)
  /\ calc \in { Call("scoreSentimentModel", <<p, n, u>>) :
                  p \in Probabilities, n \in Probabilities, u \in Probabilities }

NextModelScore == ApplyScoreSentimentModel

SpecModelScore == InitModelScore /\ [][NextModelScore]_vars

\* Lexicon results: the label of the sign, whole scores up to LexiconSpan.
LexiconSpan == 3

LexiconScores ==
  { [label |-> labelFromScore(k), score |-> Unit * k] :
      k \in (0 - LexiconSpan)..LexiconSpan }

\* Model results: none, neutral, or a direction with a magnitude from 0.5
\* to the 5.0 of the two certain classes.
ModelMagnitudes == {Unit \div 2, Unit, 3 * Unit, 5 * Unit}

ModelScores ==
  {<<>>, <<[label |-> "neutral", score |-> 0]>>}
    \cup { <<[label |-> "positive", score |-> m]>> : m \in ModelMagnitudes }
    \cup { <<[label |-> "negative", score |-> 0 - m]>> : m \in ModelMagnitudes }

ApplyCombineSentiments ==
  /\ calc.fn = "combineSentiments"
  /\ Return("combineSentiments", combineSentiments(calc.args[1], calc.args[2]))

\* combineSentiments on every model result and lexicon result.
InitCombine ==
  /\ Constructed(Midnight, {DEFAULT_RESPONSE_TTL_MS}, FALSE, FALSE)
  /\ calc \in { Call("combineSentiments", <<m, l>>) :
                  m \in ModelScores, l \in LexiconScores }

NextCombine == ApplyCombineSentiments

SpecCombine == InitCombine /\ [][NextCombine]_vars

\* Windows of 1 to MaxWindow minutes; ages from one minute in the future to
\* one minute past the window.
MaxWindow == 12

\* The decay weight of an item m minutes old at midnight.
DecayAt(m, windowMinutes) ==
  decayWeightNum(Midnight - m * MinuteMs, Midnight, windowMinutes)

\* The call returns the weights at the age asked and one minute later.
ApplyDecayWeight ==
  /\ calc.fn = "decayWeight"
  /\ Return("decayWeight",
            <<DecayAt(calc.args[2], calc.args[1]), DecayAt(calc.args[2] + 1, calc.args[1])>>)

\* decayWeight on every window and age.
InitDecay ==
  /\ Constructed(Midnight, {DEFAULT_RESPONSE_TTL_MS}, FALSE, FALSE)
  /\ calc \in { Call("decayWeight", <<w, m>>) :
                  w \in 1..MaxWindow, m \in (0 - 1)..(MaxWindow + 1) }
  /\ calc.args[2] <= calc.args[1] + 1

NextDecay == ApplyDecayWeight

SpecDecay == InitDecay /\ [][NextDecay]_vars

\* Times of day in milliseconds: midnight and just after, both sides of the
\* half minute, 05:30, noon, and the last minute of the day.
HalfPastFive == 330 * MinuteMs

TimesOfDay ==
  {0, 1, 29999, 30000, HalfPastFive, 12 * 60 * MinuteMs,
   DayMs - MinuteMs, DayMs - 30000, DayMs - 1}

\* Request times on the fourth day of the epoch.
RequestDay == 3 * DayMs

\* Offsets in whole minutes, from UTC-12 to UTC+14.
Offsets == {0 - 720, 0 - 90, 0, 1, 330, 540, 840}

\* The call returns the start of day and the window of lines 660-667.
ApplyWindow ==
  /\ calc.fn = "computeTimezoneStartOfDay"
  /\ Return("computeTimezoneStartOfDay",
            <<computeTimezoneStartOfDay(calc.args[1], calc.args[2]),
              WindowMinutesFor(calc.args[1], calc.args[2])>>)

\* The window of every request time under every offset.
InitWindow ==
  /\ Constructed(Midnight, {DEFAULT_RESPONSE_TTL_MS}, FALSE, FALSE)
  /\ calc \in { Call("computeTimezoneStartOfDay", <<RequestDay + t, o>>) :
                  t \in TimesOfDay, o \in Offsets }

NextWindow == ApplyWindow

SpecWindow == InitWindow /\ [][NextWindow]_vars

\* Class weights as whole numbers: none, equal and near-equal sides, sides
\* on the edge of the 5% band and just past it, and shares that end in one
\* half.
Weights == {0, 1, 17, 20, 21, 23, 39, 40, 41, 49, 50, 60, 100, 105}

\* The call builds the payload of a computation without items.
ApplyBuildResponse ==
  /\ calc.fn = "buildResponse"
  /\ Return("buildResponse",
            buildResponse(1, TIMEZONE_OFFSET_MINUTES, <<>>,
                          calc.args[1], calc.args[2], calc.args[3], 0, 0, 0, Midnight))

\* buildResponse on every triple of class weights.
InitAggregate ==
  /\ Constructed(Midnight, {DEFAULT_RESPONSE_TTL_MS}, FALSE, FALSE)
  /\ calc \in { Call("buildResponse", <<posW, negW, neuW>>) :
                  posW \in Weights, negW \in Weights, neuW \in {0, 1} }

NextAggregate == ApplyBuildResponse

SpecAggregate == InitAggregate /\ [][NextAggregate]_vars

\* The runs over labels: each scorer applied to its inputs (the lexicon to
\* every text of up to MaxItems of the words below, the model adapter to
\* every triple of class probabilities, the combiner to every model result
\* and lexicon result), and one invocation at midnight with a
\* CRYPTOPANIC_TOKEN and ENABLE_TRANSFORMERS, classifiers answering either
\* direction.
LabelWords == {"surge!", "Hack,", "bitcoin", "sell-off", "gain"}

LabelModelOutcomes ==
  ModelOutcomes \cup
    { Classified(<<[label |-> "NEGATIVE", score |-> 90], [label |-> "LABEL_2", score |-> 6]>>) }

ApplyScoreSentimentLexicon ==
  /\ calc.fn = "scoreSentimentLexicon"
  /\ Return("scoreSentimentLexicon", scoreSentimentLexicon(calc.args[1], calc.args[2]))

InitLabel ==
  /\ Constructed(Midnight, {DEFAULT_RESPONSE_TTL_MS}, TRUE, TRUE)
  /\ calc \in {NoCalc}
       \cup { Call("scoreSentimentLexicon", <<title, snippet>>) :
                title \in SeqsUpTo(LabelWords, MaxItems), snippet \in SeqsUpTo(LabelWords, 1) }
       \cup { Call("scoreSentimentModel", <<p, n, u>>) :
                p \in Probabilities, n \in Probabilities, u \in Probabilities }
       \cup { Call("combineSentiments", <<ms, l>>) : ms \in ModelScores, l \in LexiconScores }

\* The handler's steps of the run without a scorer call of its own.
Handling ==
  /\ calc = NoCalc
  /\ \/ \E force \in BOOLEAN : Start(1, "GET", force)
     \/ \E outcomes \in RssResultSets(CacheFeeds, ExtItems, CacheFeedItems),
             order \in Orders(CacheFeeds) :
           FeedsSettled(1, outcomes, order)
     \/ NextFeed(1)
     \/ ProcessItem(1)
     \/ AwaitModel(1)
     \/ \E ok \in BOOLEAN : ModuleSettled(ok)
     \/ \E track \in {"finbert", "xlmr"}, ok \in BOOLEAN : PipelineSettled(track, ok)
     \/ ModelUnavailable(1)
     \/ \E outcome \in LabelModelOutcomes : Inferred(1, outcome)
     \/ LoopDone(1)
     \/ \E outcome \in CpOutcomes(ExtPosts, MaxPosts) : CpSettled(1, outcome)
     \/ PostsDone(1)
     \/ Respond(1)

NextLabel ==
  \/ ApplyScoreSentimentLexicon
  \/ ApplyScoreSentimentModel
  \/ ApplyCombineSentiments
  \/ Handling

SpecLabel == InitLabel /\ [][NextLabel]_vars

\* ================================================================== claims
\* The step is the entry of invocation r into the handler.
Enters(r) == starts' = starts + 1 /\ req'[r] # req[r]

\* The step is the response of invocation r after a computation.
Answers(r) == req[r].pc = "finish" /\ req'[r].pc = "done"

\* The hit condition of the response cache, on the state before the entry.
Fresh(force) ==
  /\ RESPONSE_CACHE_TTL_MS > 0
  /\ ~force
  /\ responseCache # <<>>
  /\ clock - responseCache[1].timestamp < RESPONSE_CACHE_TTL_MS

\* C1: a GET request is served from the response cache, with no feed fetch,
\* no sweep, no scoring and no cache change, if and only if the TTL is greater
\* than 0, the request carries no force flag, a payload is stored and the
\* request time minus the stored timestamp is strictly less than the TTL;
\* otherwise (also at elapsed = TTL) it sweeps and fetches the feeds; with
\* TTL = 0 nothing is ever stored.
C1_HitIffFresh ==
  /\ [](RESPONSE_CACHE_TTL_MS = 0 => responseCache = <<>>)
  /\ [][\A r \in Req :
          (Enters(r) /\ req'[r].method = "GET") =>
             /\ req'[r].cacheHit <=> Fresh(req'[r].forceRefresh)
             /\ req'[r].cacheHit =>
                  /\ req'[r].pc = "done" /\ req'[r].status = 200
                  /\ req'[r].swept = 0 /\ req'[r].fetched = <<>>
                  /\ req'[r].scored = {}
                  /\ sentimentCache' = sentimentCache
                  /\ responseCache' = responseCache
             /\ ~req'[r].cacheHit =>
                  /\ req'[r].pc = "await_feeds" /\ req'[r].swept = 1]_vars

\* C1 witness: a request was served from the cache a positive time after the
\* payload was stored.
C1_Witness ==
  \E r \in Req :
    /\ req[r].pc = "done" /\ req[r].cacheHit
    /\ responseCache # <<>>
    /\ req[r].nowMs > responseCache[1].timestamp

\* C2 as stated, on requests that overlap no other: any two requests without
\* force whose request times are less than the TTL apart return identical
\* items, and a forced request is never served from the cache.
C2_AnyTwoInsideTtl ==
  /\ \A r1, r2 \in Req :
       ( /\ r1 # r2
         /\ req[r1].pc = "done" /\ req[r2].pc = "done"
         /\ hist.overlapped[r1] = {} /\ hist.overlapped[r2] = {}
         /\ req[r1].status = 200 /\ req[r2].status = 200
         /\ ~req[r1].forceRefresh /\ ~req[r2].forceRefresh
         /\ Abs(req[r1].nowMs - req[r2].nowMs) < RESPONSE_CACHE_TTL_MS )
       => req[r1].body[1].items = req[r2].body[1].items
  /\ \A r \in Req : req[r].pc = "done" /\ req[r].forceRefresh => ~req[r].cacheHit

\* C2 amended: a request without force that enters while a payload less than
\* TTL old is stored returns exactly the items of that payload; a computing
\* request stores the payload it returns; a request with force recomputes
\* whatever the elapsed time.
C2_ServedFromStored ==
  [][\A r \in Req :
       /\ (Enters(r) /\ req'[r].method = "GET" /\ Fresh(req'[r].forceRefresh)) =>
            /\ req'[r].status = 200
            /\ req'[r].body[1].items = responseCache[1].payload.items
       /\ (Enters(r) /\ req'[r].method = "GET" /\ req'[r].forceRefresh) =>
            /\ req'[r].pc = "await_feeds" /\ ~req'[r].cacheHit
       /\ (Answers(r) /\ RESPONSE_CACHE_TTL_MS > 0) =>
            responseCache'[1].payload = req'[r].body[1]]_vars

\* C2 witness: a request was served a stored payload with items in it, and a
\* forced request is fetching while a fresh payload is stored.
C2_Witness ==
  \E r1, r2 \in Req :
    /\ req[r1].pc = "done" /\ req[r1].cacheHit
    /\ req[r1].body[1].items # <<>>
    /\ req[r2].pc = "await_feeds" /\ req[r2].forceRefresh
    /\ responseCache # <<>>
    /\ req[r2].nowMs - responseCache[1].timestamp < RESPONSE_CACHE_TTL_MS

\* C3: cache mutations of two requests never interleave: no invocation writes
\* or deletes a cache entry after another invocation has mutated a cache
\* since its own first mutation.
C3_MutationsSerialized ==
  \A r \in Req : hist.interleaved[r] = {}

\* C4 as stated: first-writer-wins; a slot that holds a value keeps it, the
\* later write does not replace it.
C4_FirstWriterWins ==
  [][/\ (responseCache # <<>> /\ responseCache' # <<>>) => responseCache' = responseCache
     /\ \A k \in DOMAIN sentimentCache \cap DOMAIN sentimentCache' :
          sentimentCache'[k] = sentimentCache[k]]_vars

\* The item invocation r pushed in this step.
Pushed(r) == req'[r].items[Len(req'[r].items)]

\* C4 amended: last-writer-wins; every write replaces what the slot held: the
\* response cache holds the payload and request time of the invocation that
\* answered last, and a scored link holds the score and expiry of the
\* invocation that scored it last.
C4_LastWriterWins ==
  [][\A r \in Req :
       /\ (Answers(r) /\ RESPONSE_CACHE_TTL_MS > 0) =>
            responseCache' = <<[timestamp |-> req[r].nowMs, payload |-> req'[r].body[1]]>>
       /\ \A k \in req'[r].scored \ req[r].scored :
            /\ k \in DOMAIN sentimentCache'
            /\ sentimentCache'[k] =
                 [score |-> [label |-> Pushed(r).sentiment, score |-> Pushed(r).score],
                  expiresAt |-> req[r].nowMs + SENTIMENT_CACHE_TTL_MS]]_vars

\* C4 witness: a response-cache write has replaced the payload another
\* invocation stored.
C4_Witness ==
  /\ hist.replaced
  /\ responseCache # <<>>
  /\ \E r \in Req : req[r].pc = "done" /\ ~req[r].cacheHit
                    /\ req[r].body = <<responseCache[1].payload>>

\* The raw items of a run, by position (feed, index), in encounter order.
Positions(rq) ==
  {p \in (1..Len(rq.rssResults)) \X (1..MaxItems) : p[2] <= Len(rq.rssResults[p[1]].items)}

Raw(rq, p) == rq.rssResults[p[1]].items[p[2]]

Before(p, q) == p[1] < q[1] \/ (p[1] = q[1] /\ p[2] < q[2])

\* The output item it is the raw item raw.
FromRaw(it, raw) ==
  /\ it.link = normalizeLink(raw.link)
  /\ it.title = raw.title
  /\ it.pubDate = toDate(raw.pubDate)

\* C6: of two raw items of one run whose links normalize identically, the
\* later one (feed-array order, then item order) never appears in the output:
\* every output item taken from the later one is the first one as well.
C6_LaterNeverAppears ==
  \A r \in Req : req[r].pc = "finish" =>
    \A p, q \in Positions(req[r]) :
      ( /\ Before(p, q)
        /\ normalizeLink(Raw(req[r], p).link) = normalizeLink(Raw(req[r], q).link)
        /\ normalizeLink(Raw(req[r], p).link).kind # "empty" )
      => \A k \in 1..Len(req[r].items) :
           FromRaw(req[r].items[k], Raw(req[r], q)) => FromRaw(req[r].items[k], Raw(req[r], p))

\* The locals of a computation at the top of its loops.
Locals(rq) ==
  [IdleReq EXCEPT !.nowMs = rq.nowMs, !.windowMinutes = rq.windowMinutes]

\* The feed results with every rejected feed replaced by a feed without items.
EmptyWhereRejected(results) ==
  [f \in 1..Len(results) |->
     IF results[f].status = "fulfilled" THEN results[f] ELSE Fulfilled(<<>>)]

\* The loops of lines 728-782 over fulfilled feeds, from an empty sentiment
\* cache and with the lexicon as scorer.
RECURSIVE OverItems(_, _)
OverItems(rq, items) ==
  IF items = <<>> THEN rq
  ELSE LET item == Head(items)
           link == normalizeLink(item.link)
       IN OverItems(IF Dropped(rq, item) THEN rq
                    ELSE AcceptItem(rq, item.title, link, toDate(item.pubDate),
                                    resolveSource(item, link),
                                    scoreSentimentLexicon(item.title, item.contentSnippet)),
                    Tail(items))

RECURSIVE OverFeeds(_, _)
OverFeeds(rq, results) ==
  IF results = <<>> THEN rq
  ELSE OverFeeds(OverItems(rq, Head(results).items), Tail(results))

\* C7: whatever feeds reject, the computation answers 200 with the payload
\* computed from the same results with each rejected feed replaced by a feed
\* without items.
C7_FailedFeedIsEmptyFeed ==
  [][\A r \in Req : Answers(r) =>
       /\ req'[r].status = 200
       /\ req'[r].body =
            <<PayloadOf(OverFeeds(Locals(req[r]), EmptyWhereRejected(req[r].fetched)),
                        clock)>>]_vars

\* C7 witness: the first feed was rejected and the loops are over with an
\* item of a later feed accepted.
C7_Witness ==
  \E r \in Req : /\ req[r].pc = "finish"
                 /\ req[r].fetched[1].status = "rejected"
                 /\ req[r].items # <<>>

\* The step is invocation r accepting an item under link k.
Accepts(r, k) ==
  /\ Len(req'[r].items) = Len(req[r].items) + 1
  /\ Pushed(r).link = k

StoresOf(k) == {s \in hist.stores : s.link = k}

\* C8: once a computation started at t has stored the score of a link, a
\* computation started at t' that reaches the link uses the stored score
\* without scoring when t' - t < 6h, and scores the link again, replacing the
\* entry, when t' - t >= 6h for every such t.
C8_CachedSixHours ==
  [][\A r \in Req : \A k \in DOMAIN sentimentCache' :
       Accepts(r, k) =>
         /\ (\E s \in StoresOf(k) : req[r].nowMs - s.t < SENTIMENT_CACHE_TTL_MS)
              => (k \in req'[r].reused /\ k \notin req'[r].scored)
         /\ (StoresOf(k) # {} /\
             \A s \in StoresOf(k) : req[r].nowMs - s.t >= SENTIMENT_CACHE_TTL_MS)
              => ( /\ k \in req'[r].scored
                   /\ sentimentCache'[k].expiresAt =
                        req[r].nowMs + SENTIMENT_CACHE_TTL_MS )]_vars

\* The step is the sweep of a computation: the entry of invocation r into the
\* handler on a response-cache miss.
Sweeps(r) == Enters(r) /\ req'[r].pc = "await_feeds"

\* C9: a computation sweeps the sentiment cache exactly once, at its entry;
\* right after the sweep the cache holds exactly the entries it held before
\* with expiresAt > now, unchanged; and an entry leaves the cache only in a
\* sweep, or in the expiry check of a read by the running computation.
C9_OneSweepPerComputation ==
  [][/\ \A r \in Req :
          /\ Sweeps(r) =>
               /\ req'[r].swept = 1
               /\ DOMAIN sentimentCache' =
                    {k \in DOMAIN sentimentCache : sentimentCache[k].expiresAt > clock}
               /\ \A k \in DOMAIN sentimentCache' : sentimentCache'[k] = sentimentCache[k]
          /\ (InFlight(req[r]) /\ InFlight(req'[r])) => req'[r].swept = req[r].swept
          /\ Answers(r) => req[r].swept = 1
     /\ \A k \in DOMAIN sentimentCache \ DOMAIN sentimentCache' :
          \/ \E r \in Req : Sweeps(r) /\ sentimentCache[k].expiresAt <= clock
          \/ \E r \in Req : running = r /\ sentimentCache[k].expiresAt <= req[r].nowMs]_vars

\* C9 witness: the sweep of a computation has just removed an expired entry
\* and kept one that is still valid.
C9_Witness ==
  \E r \in Req :
    /\ req[r].pc = "await_feeds"
    /\ req[r].swept = 1
    /\ hist.mutated[r]
    /\ \E k \in DOMAIN sentimentCache : sentimentCache[k].expiresAt > req[r].nowMs

\* No two of the items share a normalized link.
UniqueLinks(items) ==
  \A i, j \in 1..Len(items) :
    normalizeLink(items[i].link) = normalizeLink(items[j].link) => i = j

\* C5: within one computation no two items have the same normalized link,
\* feeds and secondary source together: neither while the items are
\* collected nor in the payload the computation answers with.
C5_LinksUnique ==
  \A r \in Req :
    /\ UniqueLinks(req[r].items)
    /\ (req[r].pc = "finish" => UniqueLinks(PayloadOf(req[r], clock).items))
    /\ (req[r].pc = "done" /\ req[r].status = 200) => UniqueLinks(req[r].body[1].items)

\* C5 witness: the loops are over with two items or more, and a post of the
\* secondary source came under the link of an accepted feed article.
C5_Witness ==
  \E r \in Req :
    /\ req[r].pc = "finish"
    /\ Len(req[r].items) >= 2
    /\ \E i \in 1..Len(req[r].posts), p \in Positions(req[r]) :
         /\ normalizeLink(PostLink(req[r].posts[i])) = normalizeLink(Raw(req[r], p).link)
         /\ normalizeLink(PostLink(req[r].posts[i])) \in req[r].seen

Tracks == {"finbert", "xlmr"}

\* The step resumes invocation r from its wait for the classifier of track t.
Resumes(r, t) ==
  /\ req[r].pc = "await_model"
  /\ req[r].pending[1].track = t
  /\ req'[r].pc # "await_model"

\* C10: the loader of a track is started lazily and at most once: never
\* before the first scoring on that track, only by a scoring on that track,
\* and one time at most whatever requests follow or overlap (the module import
\* likewise); once a load has failed the track stays unavailable, no load is
\* started again, and every scoring on the track goes on with the lexicon
\* score alone.
C10_LoadedLazilyOnce ==
  /\ [](/\ \A t \in Tracks : /\ hist.loads[t] <= 1
                             /\ (hist.loads[t] = 0 <=> pipelinePromise[t] = "null")
        /\ hist.imports <= 1
        /\ (hist.imports = 0 <=> transformersModulePromise = "null"))
  /\ [][\A t \in Tracks :
          /\ hist.loads'[t] # hist.loads[t] =>
               \E r \in Req : /\ req[r].pc \in {"loop", "cp_loop"}
                              /\ req'[r].pc = "await_model"
                              /\ req'[r].pending[1].track = t
          /\ pipelinePromise[t] = "unavailable" =>
               /\ pipelinePromise'[t] = "unavailable"
               /\ hist.loads'[t] = hist.loads[t]
               /\ \A r \in Req : Resumes(r, t) =>
                    [label |-> Pushed(r).sentiment, score |-> Pushed(r).score] =
                      scoreSentimentLexicon(req[r].pending[1].entry.title,
                                            req[r].pending[1].entry.snippet)]_vars

\* C10 witness: a track whose one load failed has since served two scorings
\* without a classifier.
C10_Witness ==
  \E t \in Tracks : /\ hist.loads[t] = 1
                    /\ pipelinePromise[t] = "unavailable"
                    /\ hist.fallbacks[t] = 2

\* No two calls of the sequence are for the same model.
OneCallPerModel(calls) ==
  \A i, j \in 1..Len(calls) : calls[i].modelId = calls[j].modelId => i = j

QuantizedThenPlain(track, calls) ==
  /\ Len(calls) <= 2 * Len(Candidates(track))
  /\ \A i \in 1..Len(calls) :
       /\ calls[i].modelId = Candidates(track)[(i + 1) \div 2]
       /\ calls[i].quantized <=> i % 2 = 1

C12_DegradesToLexicon ==
  [][\A r \in Req : \A t \in Tracks :
       (Resumes(r, t) /\ req'[r].inference \in {"unavailable", "rejected", "empty"}) =>
         LET e == req[r].pending[1].entry
             lexiconScore == scoreSentimentLexicon(e.title, e.snippet)
         IN /\ req'[r].pc = e.pc
            /\ [label |-> Pushed(r).sentiment, score |-> Pushed(r).score] = lexiconScore
            /\ Pushed(r).link = e.link
            /\ sentimentCache'[e.link].score = lexiconScore]_vars

\* C12 witness: a classifier call rejected and the entry was pushed with a
\* lexicon score that is not neutral.
C12_Witness ==
  \E r \in Req : /\ req[r].inference = "rejected"
                 /\ req[r].items # <<>>
                 /\ req[r].items[Len(req[r].items)].score # 0


\* C13: for every triple of class probabilities the model result is
\* neutral whenever the strongest probability is below 0.4 or the positive
\* and negative probabilities differ by less than 0.05; otherwise it points
\* the way of positive - negative with magnitude max(0.5, 5 * |difference|).
C13_ModelThresholds ==
  Returned("scoreSentimentModel") =>
    LET positive == calc.args[1]
        negative == calc.args[2]
        neutral == calc.args[3]
        strongest == Max(positive, Max(negative, neutral))
        diff == positive - negative
        result == calc.out[1]
    IN /\ result # <<>>
       /\ IF strongest < 40 \/ Abs(diff) < 5
          THEN result[1] = [label |-> "neutral", score |-> 0]
          ELSE /\ result[1].label = (IF diff > 0 THEN "positive" ELSE "negative")
               /\ result[1].score =
                    Sign(diff) * Max(Unit \div 2, (5 * Abs(diff) * Unit) \div 100)


\* C14: the combiner returns the lexicon result when there is no model
\* result or when the model is neutral and the lexicon is not zero, the
\* model result when the lexicon is zero, the larger magnitude with the
\* common sign when both point the same way, and the input of the larger
\* magnitude when they point opposite ways.
C14_Combiner ==
  Returned("combineSentiments") =>
    LET modelScore == calc.args[1]
        lexicon == calc.args[2]
        combined == calc.out[1]
    IN IF modelScore = <<>> THEN combined = lexicon
       ELSE LET model == modelScore[1]
            IN /\ (model.label = "neutral" /\ lexicon.score # 0) => combined = lexicon
               /\ lexicon.score = 0 => combined = model
               /\ (model.score * lexicon.score > 0) =>
                    /\ combined.score =
                         Sign(model.score) * Max(Abs(model.score), Abs(lexicon.score))
                    /\ combined.label = model.label
               /\ (model.score * lexicon.score < 0) =>
                    /\ Abs(model.score) > Abs(lexicon.score) => combined = model
                    /\ Abs(lexicon.score) > Abs(model.score) => combined = lexicon
                    /\ combined \in {model, lexicon}

\* The combiner has answered lexicon +1 against model (negative, -3) with
\* the model's result.
C14_Witness ==
  /\ Returned("combineSentiments")
  /\ calc.args = <<<<[label |-> "negative", score |-> 0 - 3 * Unit]>>,
                   [label |-> "positive", score |-> Unit]>>
  /\ calc.out = <<[label |-> "negative", score |-> 0 - 3 * Unit]>>


\* C15: for a window of W minutes the decay weight is 1.0 at age 0, 0.7 at
\* age W, never larger a minute later inside [0, W], within [0.7, 1.0] for
\* every age in [0, W], and 0 for an age below 0 or above W.
C15_Decay ==
  Returned("decayWeight") =>
    LET W == calc.args[1]
        m == calc.args[2]
        weight == calc.out[1][1]
        later == calc.out[1][2]
    IN IF m < 0 \/ m > W THEN weight = 0
       ELSE /\ 7 * W <= weight /\ weight <= DecayDen(W)
            /\ m = 0 => weight = DecayDen(W)
            /\ m = W => 10 * weight = 7 * DecayDen(W)
            /\ m + 1 <= W => later <= weight

\* The weight at the far edge of a window of several minutes has been
\* computed as 0.7, after a larger weight one minute earlier.
C15_Witness ==
  /\ Returned("decayWeight")
  /\ calc.args[1] > 1
  /\ calc.args[2] = calc.args[1] - 1
  /\ 10 * calc.out[1][2] = 7 * DecayDen(calc.args[1])
  /\ calc.out[1][1] > calc.out[1][2]


\* C16: the start of day is midnight in the frame shifted by the offset,
\* not after now and less than 24 hours before it; windowMinutes is the
\* whole number nearest to the minutes since then, at least 1 and at most
\* 1440; at 05:30 UTC with offset 0 it is 330.
C16_Window ==
  Returned("computeTimezoneStartOfDay") =>
    LET now == calc.args[1]
        offset == calc.args[2]
        startOfDay == calc.out[1][1]
        windowMinutes == calc.out[1][2]
        elapsed == now - startOfDay
    IN /\ 0 <= elapsed /\ elapsed < DayMs
       /\ (startOfDay + offset * MinuteMs) % DayMs = 0
       /\ \E k \in 0..1440 :
            /\ 2 * k * MinuteMs <= 2 * elapsed + MinuteMs
            /\ 2 * elapsed + MinuteMs < 2 * (k + 1) * MinuteMs
            /\ windowMinutes = (IF k < 1 THEN 1 ELSE k)
       /\ 1 <= windowMinutes /\ windowMinutes <= 1440
       /\ (offset = 0 /\ now = RequestDay + HalfPastFive) =>
            (startOfDay = RequestDay /\ windowMinutes = 330)

\* The window at 05:30 UTC under offset 0 has been computed as 330 minutes
\* from midnight UTC.
C16_Witness ==
  /\ Returned("computeTimezoneStartOfDay")
  /\ calc.args = <<RequestDay + HalfPastFive, 0>>
  /\ calc.out[1] = <<RequestDay, 330>>


\* What an output item of a computation adds to its class's weight:
\* clamp(|score|, 0.5, 2.0) times the source weight times the decay weight.
Contribution(rq, item) ==
  clamp(Unit \div 2, 2 * Unit, Abs(item.score))
    * weightForSource(item.source)
    * decayWeightNum(item.pubDate, rq.nowMs, rq.windowMinutes)

OfClass(items, sentiment) ==
  { i \in 1..Len(items) : items[i].sentiment = sentiment }

RECURSIVE SumOfContributions(_, _)
SumOfContributions(rq, positions) ==
  IF positions = {} THEN 0
  ELSE LET i == CHOOSE j \in positions : TRUE
       IN Contribution(rq, rq.items[i]) + SumOfContributions(rq, positions \ {i})

ClassWeight(rq, sentiment) == SumOfContributions(rq, OfClass(rq.items, sentiment))

\* The running weights and counts of a computation are those of its items.
SumsMatch(rq) ==
  /\ rq.posW = ClassWeight(rq, "positive")
  /\ rq.negW = ClassWeight(rq, "negative")
  /\ rq.neuW = ClassWeight(rq, "neutral")
  /\ rq.posCount = Cardinality(OfClass(rq.items, "positive"))
  /\ rq.negCount = Cardinality(OfClass(rq.items, "negative"))
  /\ rq.neuCount = Cardinality(OfClass(rq.items, "neutral"))
  /\ rq.posCount + rq.negCount + rq.neuCount = Len(rq.items)

\* The running weight and count of one class.
Running(rq, sentiment) ==
  CASE sentiment = "positive" -> <<rq.posW, rq.posCount>>
    [] sentiment = "negative" -> <<rq.negW, rq.negCount>>
    [] OTHER -> <<rq.neuW, rq.neuCount>>

\* The step pushes one item of invocation r and moves only the weight and
\* the count of that item's class.
OwnClassOnly(r) ==
  Len(req'[r].items) = Len(req[r].items) + 1 =>
    LET item == req'[r].items[Len(req'[r].items)]
    IN \A c \in {"positive", "negative", "neutral"} :
         Running(req'[r], c) =
           IF c = item.sentiment
           THEN <<Running(req[r], c)[1] + Contribution(req'[r], item),
                  Running(req[r], c)[2] + 1>>
           ELSE Running(req[r], c)

\* C17: at every point of a computation each class's running weight is the
\* sum over its items of that class of clamp(|score|, 0.5, 2.0) times the
\* weight factor, each class's count is the number of its items of that
\* class, the counts add up to the number of items, and accepting an item
\* changes the weight and the count of its own class only.
C17_RunningSums ==
  /\ [](\A r \in Req : SumsMatch(req[r]))
  /\ [][\A r \in Req : OwnClassOnly(r)]_vars

\* A computation holds items of all three classes, among them one whose
\* score lies above 2.0 and one whose score lies below 0.5, with every
\* class's weight positive.
C17_Witness ==
  \E r \in Req :
    /\ \A c \in {"positive", "negative", "neutral"} : OfClass(req[r].items, c) # {}
    /\ \E i, j \in 1..Len(req[r].items) :
         /\ Abs(req[r].items[i].score) > 2 * Unit
         /\ Abs(req[r].items[j].score) < Unit \div 2
    /\ req[r].posW > 0 /\ req[r].negW > 0 /\ req[r].neuW > 0
    /\ SumsMatch(req[r])


\* C18: in every payload longPct and shortPct are whole numbers from 0 to
\* 100; they add up to 100 when the positive and negative weights are not
\* both zero, and are both 0 otherwise; longPct is 100 * posW / (posW + negW)
\* rounded to the nearest whole number, halves up.
C18_Percentages ==
  Returned("buildResponse") =>
    LET posW == calc.args[1]
        negW == calc.args[2]
        directional == posW + negW
        payload == calc.out[1]
    IN /\ payload.longPct \in 0..100
       /\ payload.shortPct \in 0..100
       /\ IF directional > 0
          THEN /\ payload.longPct + payload.shortPct = 100
               /\ 2 * directional * payload.longPct <= 200 * posW + directional
               /\ 200 * posW - directional < 2 * directional * payload.longPct
          ELSE payload.longPct = 0 /\ payload.shortPct = 0

\* C19: the recommendation is LONG exactly when posW > 1.05 * negW, SHORT
\* exactly when negW > 1.05 * posW and NEUTRAL otherwise; the two never hold
\* together; weights (60, 40) give LONG and (50, 49) give NEUTRAL.
C19_Recommendation ==
  Returned("buildResponse") =>
    LET posW == calc.args[1]
        negW == calc.args[2]
        long == 100 * posW > 105 * negW
        short == 100 * negW > 105 * posW
        recommendation == calc.out[1].recommendation
    IN /\ ~(long /\ short)
       /\ recommendation = "LONG" <=> long
       /\ recommendation = "SHORT" <=> short
       /\ recommendation = "NEUTRAL" <=> (~long /\ ~short)
       /\ (posW = 60 /\ negW = 40) => recommendation = "LONG"
       /\ (posW = 50 /\ negW = 49) => recommendation = "NEUTRAL"

\* The payload for weights (50, 49) has been built with NEUTRAL, although
\* the positive side is the heavier one.
C19_Witness ==
  /\ Returned("buildResponse")
  /\ calc.args[1] = 50 /\ calc.args[2] = 49
  /\ calc.out[1].recommendation = "NEUTRAL"


\* C20: an invocation whose method is not GET is answered 405 with the
\* header Allow: GET at its entry; it starts no feed fetch, no call of the
\* secondary API, no sweep and no scoring, and leaves the response cache,
\* the sentiment cache, the loaders and the other invocations as they were.
C20_OtherMethodsRejected ==
  [][\A r \in Req :
       (Enters(r) /\ req'[r].method # "GET") =>
         /\ req'[r].status = 405
         /\ req'[r].headers = {<<"Allow", "GET">>}
         /\ req'[r].pc = "done"
         /\ req'[r].feedCalls = 0 /\ req'[r].cpCalls = 0 /\ req'[r].inferCalls = 0
         /\ req'[r].swept = 0 /\ req'[r].scored = {} /\ req'[r].fetched = <<>>
         /\ req'[r].items = <<>>
         /\ UNCHANGED <<responseCache, sentimentCache, loaders>>
         /\ \A q \in Req \ {r} : req'[q] = req[q]]_vars

\* A request with another method has been answered 405 at a time when the
\* response cache was filled and the sentiment cache held an entry that a
\* sweep would have deleted.
C20_Witness ==
  \E r \in Req :
    /\ req[r].method # "GET"
    /\ req[r].status = 405
    /\ req[r].headers = {<<"Allow", "GET">>}
    /\ \A q \in Req \ {r} : req[q].pc = "done" /\ req[q].nowMs < req[r].nowMs
    /\ responseCache # <<>>
    /\ \E k \in DOMAIN sentimentCache : sentimentCache[k].expiresAt <= req[r].nowMs


\* Invocation r is at a feed whose value throws when the loop reads it.
AtFault(r) ==
  /\ running = r
  /\ req[r].pc = "loop"
  /\ req[r].fi <= Len(req[r].rssResults)
  /\ Throws(req[r].rssResults[req[r].fi])

GenericError == <<[error |-> "Failed to generate sentiment signal"]>>

\* C21: a fault in a GET computation ends the request with status 500 and
\* the generic error body; the step that ends a request in 500 leaves the
\* response cache as it was, and the response cache changes only in the step
\* by which an invocation answers 200 after its computation.
C21_FaultGives500 ==
  [][/\ \A r \in Req :
          /\ (AtFault(r) /\ req'[r] # req[r]) =>
               /\ req'[r].pc = "done"
               /\ req'[r].status = 500
               /\ req'[r].body = GenericError
          /\ (req[r].status # 500 /\ req'[r].status = 500) =>
               responseCache' = responseCache
     /\ responseCache' # responseCache =>
          \E q \in Req : Answers(q) /\ req'[q].status = 200]_vars

\* A computation that found the stored payload stale and had stored a
\* sentiment score of its own has ended in 500, the stored payload still
\* being the older one.
C21_Witness ==
  \E r \in Req :
    /\ req[r].status = 500
    /\ req[r].body = GenericError
    /\ responseCache # <<>>
    /\ responseCache[1].timestamp + RESPONSE_CACHE_TTL_MS <= req[r].nowMs
    /\ \E k \in DOMAIN sentimentCache :
         sentimentCache[k].expiresAt = req[r].nowMs + SENTIMENT_CACHE_TTL_MS

\* The payload of invocation r computed from its feeds alone.
FeedsOnlyPayload(r) ==
  PayloadOf(OverFeeds(Locals(req[r]), EmptyWhereRejected(req[r].fetched)), clock)

\* C22: whenever the secondary source fails (fetch rejected, non-OK status,
\* body parse fault or a fault while processing one of its posts), the
\* request answers 200 with the payload computed from the feeds alone, no
\* item, weight or count of the secondary source in it; and without a token
\* the secondary source is never called.
C22_FailedSourceSkipped ==
  [][\A r \in Req : Answers(r) =>
       /\ ~CRYPTOPANIC_TOKEN => req[r].cpCalls = 0
       /\ req[r].cpError # "none" =>
            /\ req'[r].status = 200
            /\ req'[r].body = <<FeedsOnlyPayload(r)>>]_vars

\* The statuses the handler sends (lines 654, 685, 865 and 867).
SentStatuses == {200, 405, 500}

\* C23: with every external call settling, every handler invocation goes on
\* to send a response; it sends one response, with status 200, 405 or 500:
\* nothing is sent while it runs, and what it sent stands until the slot
\* takes a new invocation.
C23_RunsToCompletion ==
  /\ [](\A r \in Req :
          /\ InFlight(req[r]) => req[r].status = 0 /\ req[r].body = <<>>
          /\ req[r].pc = "done" => req[r].status \in SentStatuses)
  /\ [][\A r \in Req :
          (req'[r].status # req[r].status \/ req'[r].body # req[r].body) =>
             \/ Enters(r)
             \/ InFlight(req[r]) /\ req'[r].pc = "done"]_vars
  /\ \A r \in Req : InFlight(req[r]) ~> req[r].pc = "done"

\* C23 witness: of two overlapping invocations one has answered 500 and the
\* other, having waited for a classifier, has answered 200 with an item.
C23_Witness ==
  \E r, q \in Req :
    /\ req[r].pc = "done" /\ req[r].status = 500
    /\ req[q].pc = "done" /\ req[q].status = 200
    /\ req[r].nowMs = req[q].nowMs
    /\ req[q].body[1].items # <<>>
    /\ hist.loads["finbert"] > 0

SortedByDate(items) ==
  \A i, j \in 1..Len(items) : i < j => items[i].pubDate >= items[j].pubDate

\* C24: the items of every computed payload are in descending order of
\* publish time, in whatever order the feeds and the secondary source
\* delivered them.
C24_ItemsNewestFirst ==
  [][\A r \in Req : Answers(r) /\ req'[r].status = 200 =>
       /\ SortedByDate(req'[r].body[1].items)
       /\ Len(req'[r].body[1].items) = Len(req[r].items)]_vars

\* C24 witness: a payload whose first item is a post of the secondary source
\* published after the feed article that follows it, which the loops pushed
\* before it.
C24_Witness ==
  \E r \in Req :
    /\ req[r].pc = "done" /\ req[r].status = 200
    /\ Len(req[r].body[1].items) = 2
    /\ req[r].body[1].items[1].source = "CryptoPanic"
    /\ req[r].body[1].items[2].source # "CryptoPanic"
    /\ req[r].body[1].items[1].pubDate > req[r].body[1].items[2].pubDate

\* The fields of a payload a hit takes from the stored payload.
SnapshotFields ==
  {"items", "counts", "weights", "weightDen", "longPct", "shortPct",
   "recommendation", "generatedAt"}

\* C25: a request served from the response cache sends the stored payload
\* with windowMinutes computed for its own request time and
\* timezoneOffsetMinutes set from the configuration; items, counts, weights,
\* longPct, shortPct, recommendation and generatedAt are those stored.
C25_HitRecomputesWindowOnly ==
  [][\A r \in Req : (Enters(r) /\ req'[r].cacheHit) =>
       LET sent == req'[r].body[1]
           stored == responseCache[1].payload
       IN /\ DOMAIN sent = DOMAIN stored
          /\ sent.windowMinutes = WindowMinutesAt(clock)
          /\ sent.timezoneOffsetMinutes = TIMEZONE_OFFSET_MINUTES
          /\ \A f \in SnapshotFields : sent[f] = stored[f]
          /\ DOMAIN sent = SnapshotFields \cup {"windowMinutes", "timezoneOffsetMinutes"}]_vars

\* C25 witness: a hit has sent a payload with items whose window differs
\* from the window of the payload stored.
C25_Witness ==
  \E r \in Req :
    /\ req[r].pc = "done" /\ req[r].cacheHit
    /\ responseCache # <<>>
    /\ req[r].body[1].items = responseCache[1].payload.items
    /\ req[r].body[1].items # <<>>
    /\ req[r].body[1].generatedAt = responseCache[1].payload.generatedAt
    /\ req[r].body[1].windowMinutes # responseCache[1].payload.windowMinutes

\* C26: in every 200 response, computed or served from the response cache,
\* every item lies inside the window the response reports, relative to the
\* time of that request: 0 <= minutesAgo(item) <= windowMinutes.
C26_ItemsInsideReportedWindow ==
  \A r \in Req :
    (req[r].pc = "done" /\ req[r].status = 200) =>
       \A k \in 1..Len(req[r].body[1].items) :
          withinWindow(req[r].body[1].items[k].pubDate, req[r].nowMs,
                       req[r].body[1].windowMinutes)

\* C27: over sequential and overlapping requests the timestamp stored in the
\* response cache never decreases: a computation that started earlier never
\* overwrites the payload of one that started later, so the payload stored is
\* that of the latest start among the computations that have stored.
C27_TimestampNeverDecreases ==
  [][(responseCache # <<>> /\ responseCache' # <<>>) =>
       responseCache'[1].timestamp >= responseCache[1].timestamp]_vars

\* C28: a request served from the response cache changes no shared state: the
\* response cache keeps its payload and timestamp, so that a hit is always
\* less than the TTL after the start of the computation that stored the
\* payload, and the sentiment cache is neither swept, read nor written; and a
\* read of the sentiment cache that returns an entry leaves its expiry as it
\* was.
C28_HitsChangeNothing ==
  /\ [][\A r \in Req : (Enters(r) /\ req'[r].cacheHit) =>
          /\ responseCache' = responseCache
          /\ clock - responseCache'[1].timestamp < RESPONSE_CACHE_TTL_MS
          /\ sentimentCache' = sentimentCache
          /\ loaders' = loaders
          /\ req'[r].swept = 0 /\ req'[r].reused = {} /\ req'[r].scored = {}]_vars
  /\ [][\A r \in Req : \A k \in req'[r].reused \ req[r].reused :
          /\ k \in DOMAIN sentimentCache /\ k \in DOMAIN sentimentCache'
          /\ sentimentCache'[k] = sentimentCache[k]]_vars

\* C28 witness: one request has been served from the response cache, and a
\* computation has taken from the sentiment cache a score stored before its
\* own start.
C28_Witness ==
  \E r, q \in Req :
    /\ r # q
    /\ req[r].pc = "done" /\ req[r].cacheHit
    /\ responseCache # <<>> /\ req[r].nowMs > responseCache[1].timestamp
    /\ \E k \in req[q].reused :
         /\ k \in DOMAIN sentimentCache
         /\ sentimentCache[k].expiresAt < req[q].nowMs + SENTIMENT_CACHE_TTL_MS

\* The label of a sentiment score is that of the sign of its score.
Agrees(s) ==
  /\ s.label = "positive" <=> s.score > 0
  /\ s.label = "negative" <=> s.score < 0
  /\ s.label = "neutral" <=> s.score = 0

SentimentOf(item) == [label |-> item.sentiment, score |-> item.score]

\* C29: every sentiment score the lexicon scorer, the model adapter or the
\* combiner returns, every score stored in the sentiment cache and every
\* score of an item, pushed or sent, has the label of its sign: positive iff
\* score > 0, negative iff score < 0, neutral iff score = 0.
C29_LabelFollowsSign ==
  /\ Returned("scoreSentimentLexicon") => Agrees(calc.out[1])
  /\ Returned("scoreSentimentModel") => \A s \in {calc.out[1][i] : i \in 1..Len(calc.out[1])} : Agrees(s)
  /\ Returned("combineSentiments") => Agrees(calc.out[1])
  /\ \A k \in DOMAIN sentimentCache : Agrees(sentimentCache[k].score)
  /\ \A r \in Req :
       /\ \A i \in 1..Len(req[r].items) : Agrees(SentimentOf(req[r].items[i]))
       /\ (req[r].pc = "done" /\ req[r].status = 200) =>
            \A i \in 1..Len(req[r].body[1].items) :
               Agrees(SentimentOf(req[r].body[1].items[i]))

\* C29 witness: a payload sent with a negative item whose score, larger than
\* any lexicon score of its text, came from a classifier and is stored for
\* its link in the sentiment cache.
C29_Witness ==
  \E r \in Req :
    /\ req[r].pc = "done" /\ req[r].status = 200
    /\ \E i \in 1..Len(req[r].body[1].items) :
         LET item == req[r].body[1].items[i]
         IN /\ item.sentiment = "negative"
            /\ item.score < 0 - 2 * Unit
            /\ item.link \in DOMAIN sentimentCache
            /\ sentimentCache[item.link].score = SentimentOf(item)

\* C30: in every payload the recommendation agrees with the percentages: LONG
\* only with longPct > 50, SHORT only with shortPct > 50, and NEUTRAL when the
\* positive and the negative weight are both zero.
C30_RecommendationFitsPercentages ==
  Returned("buildResponse") =>
    LET payload == calc.out[1]
    IN /\ payload.recommendation = "LONG" => payload.longPct > 50
       /\ payload.recommendation = "SHORT" => payload.shortPct > 50
       /\ payload.weights.posW + payload.weights.negW = 0 =>
            payload.recommendation = "NEUTRAL"

\* C30 witness: weights just past the band, 41 against 39, have given LONG
\* with a longPct of 51.
C30_Witness ==
  /\ Returned("buildResponse")
  /\ calc.args[1] = 41 /\ calc.args[2] = 39
  /\ calc.out[1].recommendation = "LONG"
  /\ calc.out[1].longPct = 51

============================================================================
